---- MODULE Spec2Model ----
(***************************************************************************)
(* A model of Authl: the token stores (authl/tokens.py), the handler       *)
(* registry and dispatcher (authl/__init__.py) and the login transactions  *)
(* of the Email, IndieAuth and Fediverse handlers (authl/handlers/).       *)
(*                                                                         *)
(* Time is the value of time.time(), in whole seconds.  URLs are records   *)
(* [scheme, netloc, path], the parts urllib.parse.urlparse splits them     *)
(* into.  A disposition is a record with the fields of all five classes of *)
(* authl/disposition.py, the unused ones left empty.                       *)
(***************************************************************************)
EXTENDS Integers, Sequences, FiniteSets, TLC

VARIABLES
    now,          \* time.time()
    store,        \* DictStore._store: key -> [val, at]
    nextKey,      \* the keys DictStore._keygen has handed out so far, plus one
    storeMaxAge,  \* max_age_seconds of the backing ExpiringDict, 0 for a plain dict
    timeout,      \* handler -> its _timeout (IndieAuth, Fediverse) or _lifetime (Email)
    pending,      \* EmailAddress._pending: address -> [val, at]
    pendingExpires, \* whether _pending is the default ExpiringDict or an injected dict
    sent,         \* how many times EmailAddress._sendmail has been called
    cache,        \* indieauth._ENDPOINT_CACHE: url -> [val: [endpoints, profile], at]
    profiles,     \* indieauth._PROFILE_CACHE: url -> [val, at]
    fvCache,      \* the lru_caches of Fediverse._get_instance and _get_client
    web,          \* what an HTTP GET of each URL answers
    finger,       \* what webfinger.get_profiles makes of each address
    handlers,     \* Authl._handlers, an OrderedDict, as the sequence of its values
    procs,        \* concurrently running check_callback requests
    last,         \* the call just made and what it returned
    verified,     \* history: the keys for which a check_callback returned Verified
    revoked,      \* history, of a store on its own: the tokens pop or remove was called on
    tokenStore    \* the class of the token store that the handlers are constructed with

vars == <<now, store, nextKey, storeMaxAge, timeout, pending, pendingExpires, sent,
          cache, profiles, fvCache, web, finger, handlers, procs, last, verified,
          revoked, tokenStore>>

----------------------------------------------------------------------------
(* Bounds of the model *)

MaxTokens == 2
MaxTime == 3
\* The timeout of a transaction, standing for the 600 s and 900 s of the code
MaxTimeout == 1

\* The Email handler on its own issues one token more: a token that has timed
\* out, the token that replaced it and the one after that
MaxEmailTokens == 3
Keys == 1..MaxEmailTokens
NoToken == 0
Times == 0..MaxTime
\* The ExpiringDict behind a DictStore outlives the transactions: 3600 s
\* against 600 s and 900 s.
StoreAge == MaxTimeout + 2

----------------------------------------------------------------------------
(* URLs *)

Url(scheme, netloc, path) == [scheme |-> scheme, netloc |-> netloc, path |-> path]
NoUrl == Url("", "", "")

\* str.lower() on the addresses of the model
lower(s) ==
    CASE s = "User@Example.com" -> "user@example.com"
      [] s = "Foo@Bar.com" -> "foo@bar.com"
      [] OTHER -> s

\* validate_email.validate_email on the addresses of the model
validate_emailMutant(s) == TRUE
validate_email(s) == lower(s) \in {"user@example.com", "foo@bar.com"}

Addresses == {"user@example.com", "User@Example.com", "foobar.com"}
NoMsg == [to |-> "", url |-> "", t |-> NoToken]
EmailIdUrls == [scheme : {"mailto", "https"}, netloc : {""}, path : Addresses]
Redirs == {"/dest", "/other"}
CallbackUri == "http://example/cb"

----------------------------------------------------------------------------
(* Dispositions *)

Disposition(kind, message, redir, identity, profile, url, data) ==
    [kind |-> kind, message |-> message, redir |-> redir, identity |-> identity,
     profile |-> profile, url |-> url, data |-> data]

Redirect(url, state) == Disposition("Redirect", "", "", NoUrl, {}, url, state)
Verified(identity, redir, profile) ==
    Disposition("Verified", "", redir, identity, profile, "", NoToken)
Notify(cdata) == Disposition("Notify", cdata, "", NoUrl, {}, "", NoToken)
Error(message, redir) == Disposition("Error", message, redir, NoUrl, {}, "", NoToken)
NeedsPost(url, message, t) == Disposition("NeedsPost", message, "", NoUrl, {}, url, t)
\* An exception that leaves the call instead of a disposition
Raises(exc) == Disposition("Raises", exc, "", NoUrl, {}, "", NoToken)
NoResult == Disposition("", "", "", NoUrl, {}, "", NoToken)

----------------------------------------------------------------------------
(* Stored values: the tuples the handlers put, tagged by their shape *)

Value(shape, id, endpoint, when, redir) ==
    [shape |-> shape, id |-> id, endpoint |-> endpoint, when |-> when, redir |-> redir]
NoValue == Value("", NoUrl, "", 0, "")

\* An ExpiringDict answers for a key while now - at < max_age; a dict always.
Live(d, maxAge, k, t) ==
    /\ k \in DOMAIN d
    /\ (maxAge = 0 \/ t - d[k].at < maxAge)

Drop(d, k) == [j \in DOMAIN d \ {k} |-> d[j]]
Set(d, k, v, t) == [j \in DOMAIN d \cup {k} |-> IF j = k THEN [val |-> v, at |-> t] ELSE d[j]]
Expired(d, maxAge, t) == {k \in DOMAIN d : ~Live(d, maxAge, k, t)}
Purge(d, maxAge, t) == [j \in DOMAIN d \ Expired(d, maxAge, t) |-> d[j]]

\* DictStore.get: to_type(self._store[key]); a stored value that to_type
\* cannot convert raises TypeError
DictGet(d, maxAge, k, t) ==
    IF ~Live(d, maxAge, k, t) THEN [ok |-> FALSE, exc |-> "KeyError", val |-> NoValue]
    ELSE IF d[k].val.shape = "scalar"
         THEN [ok |-> FALSE, exc |-> "TypeError", val |-> NoValue]
         ELSE [ok |-> TRUE, exc |-> "", val |-> d[k].val]

\* DictStore.remove
DictRemoveAllMutant(d, k) == <<>>
DictRemoveMutant(d, k) == d
DictRemove(d, k) == IF k \in DOMAIN d THEN Drop(d, k) ELSE d

\* TokenStore.pop on a DictStore: get, and remove whatever get did
DictPopPeekMutant(d, maxAge, k, t) == [got |-> DictGet(d, maxAge, k, t), store |-> d]
DictPopMutant(d, maxAge, k, t) ==
    LET got == DictGet(d, maxAge, k, t)
    IN  [got |-> got, store |-> IF got.ok THEN DictRemove(d, k) ELSE d]
DictPop(d, maxAge, k, t) ==
    [got |-> DictGet(d, maxAge, k, t), store |-> DictRemove(d, k)]

----------------------------------------------------------------------------
(* What every handler does with the clock *)

\* time.time() > when + self._timeout
TimedOutNeverMutant(when, w, t) == FALSE
TimedOutMutant(when, w, t) == t > when + w + 1
TimedOut(when, w, t) == t > when + w

\* What a lookup in the store gives: the value, or the exception raised
Got(ok, exc, val) == [ok |-> ok, exc |-> exc, val |-> val]
NoGot == Got(FALSE, "", NoValue)

\* What get_handler_for_url returns: the handler, as its place in the
\* registry (0 for None), its cb_id and the canonical identity URL
Match(handler, hid, profile, stage) ==
    [handler |-> handler, hid |-> hid, profile |-> profile, stage |-> stage]
NoMatch == Match(0, "", NoUrl, "")

Call(op, h, key, gett, id, redir, me, res) ==
    [op |-> op, h |-> h, key |-> key, gett |-> gett, id |-> id, redir |-> redir,
     me |-> me, res |-> res, asked |-> FALSE, revoke |-> "", msg |-> NoMsg,
     got |-> NoGot, found |-> NoMatch]

\* The tokens put has returned so far; any other key stands for a string that
\* is not a token of the store, and is none of the tokens issued later
Issued == 1..(nextKey - 1)

\* DictStore.put: key = self._keygen(value), uuid4 by default: a key never used before
TokenBound ==
    IF {handlers[i].cb_id : i \in DOMAIN handlers} = {"e"} THEN MaxEmailTokens
    ELSE MaxTokens

PutMutant(v) ==
    /\ nextKey <= TokenBound
    /\ store' = Set(store, nextKey, v, now)
    /\ nextKey' = nextKey
Put(v) ==
    /\ nextKey <= TokenBound
    /\ store' = Set(store, nextKey, v, now)
    /\ nextKey' = nextKey + 1

----------------------------------------------------------------------------
(* The Email handler, authl/handlers/email_addr.py *)

PendingAge == IF pendingExpires THEN timeout["e"] ELSE 0

\* initiate_auth, lines 133-141: a live pending entry whose token the store
\* still returns as a 3-tuple that has not timed out (a pending token is one
\* this handler put, so no other 3-tuple is found under it)
StillPendingMutant(dest_addr) == Live(pending, PendingAge, dest_addr, now)
StillPending(dest_addr) ==
    /\ Live(pending, PendingAge, dest_addr, now)
    /\ LET got == DictGet(store, storeMaxAge, pending[dest_addr].val, now)
       IN  /\ got.ok
           /\ got.val.shape = "e3"
           /\ ~TimedOut(got.val.when, timeout["e"], now)

\* initiate_auth, line 131: dest_addr = parsed.path.lower()
DestAddrMutant(path) == path
DestAddr(path) == lower(path)

\* check_callback, line 189: 'mailto:' + email_addr
EmailIdentityMutant(email_addr) == Url("mailto", "", "foo@bar.com")
EmailIdentity(email_addr) == Url("mailto", "", email_addr)

Email_initiate_auth(id_url, callback_uri, redir) ==
    IF id_url.scheme # "mailto" \/ ~validate_email(id_url.path)
    THEN /\ last' = Call("initiate_auth", "e", NoToken, NoToken, id_url, redir, NoUrl,
                         Error("Malformed email URL", redir))
         /\ UNCHANGED <<store, nextKey, pending, sent>>
    ELSE LET dest_addr == DestAddr(id_url.path)
         IN  IF StillPending(dest_addr)
             THEN /\ last' = Call("initiate_auth", "e", NoToken, NoToken, id_url, redir,
                                  NoUrl, Notify("cdata"))
                  /\ UNCHANGED <<store, nextKey, pending, sent>>
             ELSE /\ Put(Value("e3", Url("", "", dest_addr), "", now, redir))
                  /\ pending' = Set(pending, dest_addr, nextKey, now)
                  /\ sent' = sent + 1
                  /\ last' = [Call("initiate_auth", "e", nextKey, NoToken, id_url, redir,
                                   NoUrl, Notify("cdata"))
                              EXCEPT !.msg = [to |-> dest_addr, url |-> callback_uri,
                                              t |-> nextKey]]

\* check_callback from line 180 on, with what the store gave for the token
EmailDecided(got) ==
    LET v == got.val
    IN  IF ~got.ok \/ v.shape \notin {"e3", "fv3"}
        THEN [res |-> Error("Invalid token", ""), pending |-> pending]
        ELSE IF v.shape = "fv3"
        \* the 3-tuple of the Fediverse handler unpacks, and its client tuple
        \* holds dicts: self._pending.pop raises TypeError (unhashable)
        THEN [res |-> Raises("TypeError"), pending |-> pending]
        ELSE [res |-> IF TimedOut(v.when, timeout["e"], now)
                      THEN Error("Login timed out", v.redir)
                      ELSE Verified(EmailIdentity(v.id.path), v.redir,
                                    {<<"email", v.id.path>>}),
              pending |-> DictRemove(pending, v.id.path)]

\* check_callback after the two early returns: pop the token and decide
EmailPopped(token) ==
    LET popped == DictPop(store, storeMaxAge, token, now)
    IN  EmailDecided(popped.got) @@ [store |-> popped.store]

\* check_callback without the test of line 169: the token of the query is
\* looked up like the one of the form
Email_check_callbackMutant(url, gett, datat) ==
    LET token == IF gett # NoToken THEN gett ELSE datat
    IN  IF token = NoToken
        THEN /\ last' = Call("check_callback", "e", datat, gett, NoUrl, "", NoUrl,
                             Error("Missing token", "None"))
             /\ UNCHANGED <<store, pending, verified>>
        ELSE LET out == EmailPopped(token)
             IN  /\ store' = out.store
                 /\ pending' = out.pending
                 /\ verified' = IF out.res.kind = "Verified"
                                THEN verified \cup {token} ELSE verified
                 /\ last' = Call("check_callback", "e", datat, gett, NoUrl, "", NoUrl,
                                 out.res)

Email_check_callback(url, gett, datat) ==
    IF gett # NoToken
    THEN /\ last' = Call("check_callback", "e", datat, gett, NoUrl, "", NoUrl,
                         NeedsPost(url, "Complete your login", gett))
         /\ UNCHANGED <<store, pending, verified>>
    ELSE IF datat = NoToken
    THEN /\ last' = Call("check_callback", "e", datat, gett, NoUrl, "", NoUrl,
                         Error("Missing token", "None"))
         /\ UNCHANGED <<store, pending, verified>>
    ELSE LET out == EmailPopped(datat)
         IN  /\ store' = out.store
             /\ pending' = out.pending
             /\ verified' = IF out.res.kind = "Verified"
                            THEN verified \cup {datat} ELSE verified
             /\ last' = Call("check_callback", "e", datat, gett, NoUrl, "", NoUrl, out.res)


----------------------------------------------------------------------------
(* The web as the IndieAuth handler sees it, authl/handlers/indieauth.py *)

IAUrls == {Url("https", "a.example", "/"), Url("http", "a.example", "/"),
           Url("https", "b.example", "/")}
AuthEndpoints == {"https://auth.example/1", "https://auth.example/2"}

\* The endpoints dict of find_endpoints: rel -> url, "" for a rel that is
\* not there.  wm stands for the five rels other than authorization_endpoint.
Endpoints(auth, wm) == [auth |-> auth, wm |-> wm]
NoEndpoints == Endpoints("", "")

\* What utils.request_url(url) answers: None (ok = FALSE), or a response with
\* the endpoints its Link headers and link tags declare and the permanent URL
\* of its redirect chain
\* A page: whether the GET answers, the endpoints the page declares, the URL
\* its permanent redirects lead to, the URL the response came from, and the
\* URLs of its rel="me" links in the order they are tried
WebPage(ok, auth, wm, perm, url, me) ==
    [ok |-> ok, auth |-> auth, wm |-> wm, perm |-> perm, url |-> url, me |-> me]
Page(ok, auth, wm, perm) == WebPage(ok, auth, wm, perm, perm, <<>>)
Pages(u) ==
    {Page(FALSE, "", "", u)} \cup
    {Page(TRUE, a, w, p) : a \in AuthEndpoints \cup {""}, w \in {"", "https://wm.example/"},
                           p \in {u, Url("https", "b.example", "/")}}

\* utils.permanent_url(request)
permanent_url(page) == page.perm

\* _ENDPOINT_CACHE and _PROFILE_CACHE: ExpiringDict(max_len=128, max_age_seconds=300),
\* half the default transaction timeout
CacheAge == IF MaxTimeout > 1 THEN MaxTimeout - 1 ELSE 1

\* _derive_endpoint over the six rels: what the links and content declare
Derived(page) == Endpoints(page.auth, page.wm)

\* endpoints = cached.copy(), then every derived endpoint written over it
Overlay(cached, derived) ==
    Endpoints(IF derived.auth # "" THEN derived.auth ELSE cached.auth,
              IF derived.wm # "" THEN derived.wm ELSE cached.wm)

\* find_endpoints without line 128: what was found is cached under the
\* requested URL only
find_endpointsMutant(c, w, id_url, given, src, t) ==
    LET hit == Live(c, CacheAge, id_url, t)
        cached == IF hit THEN c[id_url].val.endpoints ELSE NoEndpoints
        profile0 == IF hit THEN c[id_url].val.profile ELSE id_url
        fetch == cached = NoEndpoints /\ ~given
        got == fetch /\ w[id_url].ok
        page == IF given THEN src ELSE w[id_url]
        derived == IF given \/ got THEN Derived(page) ELSE NoEndpoints
        profile == IF got THEN permanent_url(page) ELSE profile0
        endpoints == Overlay(cached, derived)
        entry == [endpoints |-> endpoints, profile |-> profile]
        purged == Purge(c, CacheAge, t)
    IN  [endpoints |-> endpoints, profile |-> profile, fetched |-> fetch,
         prefill |-> IF endpoints # NoEndpoints /\ (given \/ got) THEN {profile} ELSE {},
         cache |-> IF endpoints # NoEndpoints THEN Set(purged, id_url, entry, t)
                   ELSE purged]

\* find_endpoints(id_url, links, content): given = whether links or content
\* were passed in, and then src is the page they come from.
\* Returns the endpoints, the profile URL and the cache as it is left.
find_endpoints(c, w, id_url, given, src, t) ==
    LET hit == Live(c, CacheAge, id_url, t)
        cached == IF hit THEN c[id_url].val.endpoints ELSE NoEndpoints
        profile0 == IF hit THEN c[id_url].val.profile ELSE id_url
        fetch == cached = NoEndpoints /\ ~given
        got == fetch /\ w[id_url].ok
        page == IF given THEN src ELSE w[id_url]
        derived == IF given \/ got THEN Derived(page) ELSE NoEndpoints
        profile == IF got THEN permanent_url(page) ELSE profile0
        endpoints == Overlay(cached, derived)
        entry == [endpoints |-> endpoints, profile |-> profile]
        purged == Purge(c, CacheAge, t)
    IN  [endpoints |-> endpoints,
         profile |-> profile,
         fetched |-> fetch,
         \* line 131: get_profile(profile, content=content, ...) stashes the profile
         prefill |-> IF endpoints # NoEndpoints /\ (given \/ got) THEN {profile} ELSE {},
         cache |-> IF endpoints # NoEndpoints
                   THEN Set(Set(purged, id_url, entry, t), profile, entry, t)
                   ELSE purged]

\* find_endpoint(id_url): the authorization_endpoint of find_endpoints
find_endpoint(c, w, id_url, t) == find_endpoints(c, w, id_url, FALSE, w[id_url], t)

\* verify_id(request_id, response_id)
SameEndpointMutant(req_endpoint, resp_endpoint) == req_endpoint = resp_endpoint
SameEndpoint(req_endpoint, resp_endpoint) ==
    resp_endpoint # "" /\ req_endpoint = resp_endpoint

\* verify_id without the exact-match shortcut of lines 241-243
verify_idMutant(c, w, request_id, response_id, t) ==
    LET req == find_endpoint(c, w, request_id, t)
        resp == find_endpoint(req.cache, w, response_id, t)
    IN  [ok |-> SameEndpoint(req.endpoints.auth, resp.endpoints.auth),
         id |-> resp.profile, cache |-> resp.cache, looked |-> TRUE,
         req |-> req.endpoints.auth, resp |-> resp.endpoints.auth,
         prefill |-> req.prefill \cup resp.prefill]

verify_id(c, w, request_id, response_id, t) ==
    IF request_id = response_id
    THEN [ok |-> TRUE, id |-> response_id, cache |-> c, looked |-> FALSE,
          req |-> "", resp |-> "", prefill |-> {}]
    ELSE LET req == find_endpoint(c, w, request_id, t)
             resp == find_endpoint(req.cache, w, response_id, t)
         IN  [ok |-> SameEndpoint(req.endpoints.auth, resp.endpoints.auth),
              id |-> resp.profile, cache |-> resp.cache, looked |-> TRUE,
              req |-> req.endpoints.auth, resp |-> resp.endpoints.auth,
              prefill |-> req.prefill \cup resp.prefill]


\* _PROFILE_CACHE[url] = profile for every url of a set; the pages of the
\* model carry no h-card, so the profile stashed is the empty one
Stash(pc, urls, t) ==
    [u \in DOMAIN Purge(pc, CacheAge, t) \cup urls |->
        IF u \in urls THEN [val |-> {}, at |-> t] ELSE pc[u]]

\* The profile dict as a set of <<key, value>> pairs
ProfileOf(server_name, endpoints) ==
    (IF server_name # "" THEN {<<"name", server_name>>} ELSE {})
    \cup (IF endpoints.auth # "" THEN {<<"authorization_endpoint", endpoints.auth>>} ELSE {})
    \cup (IF endpoints.wm # "" THEN {<<"webmention", endpoints.wm>>} ELSE {})

\* get_profile(id_url, server_profile=...)
get_profile(c, pc, w, id_url, server_name, t) ==
    LET got == ~Live(pc, CacheAge, id_url, t) /\ w[id_url].ok
        found == find_endpoints(c, w, id_url, got, w[id_url], t)
    IN  [profile |-> ProfileOf(server_name, found.endpoints),
         cache |-> found.cache,
         profiles |-> Stash(pc, {id_url} \cup found.prefill, t)]

----------------------------------------------------------------------------
(* The IndieAuth handler *)

IA_initiate_auth(id_url, callback_uri, redir) ==
    LET found == find_endpoint(cache, web, id_url, now)
    IN  /\ cache' = found.cache
        /\ profiles' = Stash(profiles, found.prefill, now)
        /\ IF found.endpoints.auth = ""
           THEN /\ last' = Call("initiate_auth", "ia", NoToken, NoToken, id_url, redir, NoUrl,
                                Error("Failed to get IndieAuth endpoint", redir))
                /\ UNCHANGED <<store, nextKey>>
           ELSE /\ Put(Value("ia6", found.profile, found.endpoints.auth, now, redir))
                /\ last' = Call("initiate_auth", "ia", nextKey, NoToken, id_url, redir, NoUrl,
                                Redirect(found.endpoints.auth, nextKey))

\* What the authorization endpoint answers to the POST of the code
IAResponses ==
    {[kind |-> k, me |-> NoUrl, name |-> ""] : k \in {"refused", "status", "badjson", "nome"}}
    \cup {[kind |-> "ok", me |-> u, name |-> n] : u \in IAUrls, n \in {"", "Alice"}}

\* check_callback from line 365 on, with the popped transaction v, over the
\* endpoint cache c and the profile cache pc
IAVerifyOver(c, pc, v, hasCode, resp) ==
    LET checked == verify_id(c, web, v.id, resp.me, now)
        prof == get_profile(checked.cache, Stash(pc, checked.prefill, now), web,
                            checked.id, resp.name, now)
        same == [cache |-> c, profiles |-> pc]
    IN  IF ~hasCode THEN [res |-> Error("Missing 'code'", v.redir)] @@ same
        ELSE IF resp.kind = "refused" THEN [res |-> Raises("ConnectionError")] @@ same
        ELSE IF resp.kind = "status"
        THEN [res |-> Error("Authorization endpoint returned 500", v.redir)] @@ same
        ELSE IF resp.kind = "badjson"
        THEN [res |-> Error("Got invalid response JSON", v.redir)] @@ same
        ELSE IF resp.kind = "nome" THEN [res |-> Error("Missing 'me'", v.redir)] @@ same
        ELSE IF ~checked.ok
        THEN [res |-> Error(IF checked.resp = "" THEN "missing IndieAuth endpoint"
                            ELSE "Authorization endpoint mismatch", v.redir),
              cache |-> checked.cache,
              profiles |-> Stash(pc, checked.prefill, now)]
        ELSE [res |-> Verified(checked.id, v.redir, prof.profile),
              cache |-> prof.cache, profiles |-> prof.profiles]

IAVerify(v, hasCode, resp) == IAVerifyOver(cache, profiles, v, hasCode, resp)

\* Whether check_callback gets as far as the request's parameters
IAOpen(got) ==
    got.ok /\ got.val.shape = "ia6" /\ ~TimedOut(got.val.when, timeout["ia"], now)

\* check_callback from line 361 on, with what the store gave for the state
IADecided(got, hasCode, resp) ==
    LET v == got.val
        same == [cache |-> cache, profiles |-> profiles]
    IN  IF ~got.ok \/ v.shape # "ia6" THEN [res |-> Error("Invalid token", "")] @@ same
        ELSE IF TimedOut(v.when, timeout["ia"], now)
        THEN [res |-> Error("Transaction timed out", v.redir)] @@ same
        ELSE IAVerify(v, hasCode, resp)

IA_check_callback(state) ==
    IF state = NoToken
    THEN /\ last' = Call("check_callback", "ia", state, NoToken, NoUrl, "", NoUrl,
                         Error("No transaction provided", ""))
         /\ UNCHANGED <<store, cache, profiles, verified>>
    ELSE LET popped == DictPop(store, storeMaxAge, state, now)
         IN  /\ store' = popped.store
             /\ \E hasCode \in BOOLEAN, resp \in IAResponses :
                    LET out == IADecided(popped.got, hasCode, resp)
                    IN  \* a request that is never made has no answer to choose
                        /\ hasCode => IAOpen(popped.got)
                        /\ hasCode \/ resp.kind = "refused"
                        /\ cache' = out.cache
                        /\ profiles' = out.profiles
                        /\ verified' = IF out.res.kind = "Verified"
                                       THEN verified \cup {state} ELSE verified
                        /\ last' = Call("check_callback", "ia", state, NoToken,
                                        popped.got.val.id, "", resp.me, out.res)


----------------------------------------------------------------------------
(* The Fediverse handler, authl/handlers/fediverse.py *)

FvIdUrls == {Url("https", "m.example", "/@moo")}
\* The domains whose /api/v1/instance describes a Fediverse instance
FvInstances == {"m.example"}

\* What verify_credentials may name as the account's url
FvAccountUrls ==
    {Url("https", "m.example", "/@moo"), Url("https", "hijack.example", "/@moo"),
     Url("", "", "/@moo"), Url("", "hijack.example", "/@moo"),
     Url("mailto", "", "moo@m.example")}

\* urllib.parse.urljoin(base, url), for a base with scheme http or https
urljoin(base, url) ==
    IF url = NoUrl THEN base
    ELSE LET scheme == IF url.scheme = "" THEN base.scheme ELSE url.scheme
         IN  IF scheme # base.scheme THEN url
             ELSE IF url.netloc # "" THEN Url(scheme, url.netloc, url.path)
             ELSE Url(scheme, base.netloc, IF url.path = "" THEN base.path ELSE url.path)

\* _get_instance, lines 90-95: the instance URL a probe of url would look at
InstanceOf(url) == Url("https", IF url.netloc # "" THEN url.netloc ELSE url.path, "")

\* _get_identity, lines 177-178: the account URL against the instance
DomainsMatch(instance, account) == urljoin(instance, account).netloc = instance.netloc

\* What verify_credentials answers
FvCredentials ==
    {[kind |-> k, url |-> NoUrl] : k \in {"refused", "status", "nourl"}}
    \cup {[kind |-> "ok", url |-> u] : u \in FvAccountUrls}

\* _get_identity(client, auth_headers, redir)
get_identity(instance, cred, redir) ==
    IF cred.kind = "refused" THEN Raises("ConnectionError")
    ELSE IF cred.kind = "status" THEN Error("Unable to get account credentials", redir)
    ELSE IF cred.kind = "nourl" THEN Error("No user URL provided", redir)
    ELSE IF ~DomainsMatch(instance, cred.url) THEN Error("Domains do not match", redir)
    ELSE Verified(urljoin(instance, cred.url), redir, {<<"url", cred.url.path>>})

NoFvCache == [instance |-> <<>>, client |-> <<>>]

\* _get_instance under its lru_cache: the answer of the first probe stays
get_instance(fc, id_url, probeOk) ==
    IF id_url \in DOMAIN fc.instance THEN fc.instance[id_url]
    ELSE IF probeOk /\ InstanceOf(id_url).netloc \in FvInstances THEN InstanceOf(id_url)
    ELSE NoUrl

FV_initiate_auth(id_url, callback_uri, redir, probeOk, reg) ==
    LET known == id_url \in DOMAIN fvCache.client
        instance == get_instance(fvCache, id_url, probeOk)
        probed == [u \in DOMAIN fvCache.instance \cup {id_url} |->
                      IF u = id_url THEN instance ELSE fvCache.instance[u]]
        \* _get_client returned (a Client or None) and lru_cache keeps that
        returned == known \/ instance = NoUrl \/ reg = "ok"
        client == IF known THEN fvCache.client[id_url] ELSE instance
    IN  /\ fvCache' = [instance |-> IF known THEN fvCache.instance ELSE probed,
                       client |-> IF returned
                                  THEN [u \in DOMAIN fvCache.client \cup {id_url} |->
                                           IF u = id_url THEN client
                                           ELSE fvCache.client[u]]
                                  ELSE fvCache.client]
        /\ IF ~returned
           THEN /\ last' = Call("initiate_auth", "fv", NoToken, NoToken, id_url, redir, NoUrl,
                                Error("Failed to register OAuth client: " \o reg, redir))
                /\ UNCHANGED <<store, nextKey>>
           ELSE IF client = NoUrl
           THEN /\ last' = Call("initiate_auth", "fv", NoToken, NoToken, id_url, redir, NoUrl,
                                Error("Failed to register OAuth client", redir))
                /\ UNCHANGED <<store, nextKey>>
           ELSE /\ Put(Value("fv3", client, "", now, redir))
                /\ last' = Call("initiate_auth", "fv", nextKey, NoToken, id_url, redir, NoUrl,
                                Redirect("/oauth/authorize", nextKey))

\* check_callback from line 216 on, with the popped transaction v
FVExchange(v, hasError, hasCode, tok, cred, revoke) ==
    IF hasError THEN Error("Error signing into Fediverse", v.redir)
    ELSE IF ~hasCode THEN Error("Missing 'code'", v.redir)
    ELSE IF tok = "refused" THEN Raises("ConnectionError")
    ELSE IF tok = "status" THEN Error("Could not retrieve access token", v.redir)
    ELSE IF tok = "noaccess" THEN Error("Missing 'access_token'", v.redir)
    ELSE IF get_identity(v.id, cred, v.redir).kind = "Raises"
    THEN get_identity(v.id, cred, v.redir)
    \* lines 242-252: the revocation request; only a failure of the request
    \* itself leaves the call
    ELSE IF revoke = "refused" THEN Raises("ConnectionError")
    ELSE get_identity(v.id, cred, v.redir)

\* Whether check_callback gets as far as the request's parameters
FVOpen(got) ==
    got.ok /\ got.val.shape = "fv3" /\ ~TimedOut(got.val.when, timeout["fv"], now)

\* check_callback from line 208 on, with what the store gave for the state
FVDecided(got, hasError, hasCode, tok, cred, revoke) ==
    LET v == got.val
    IN  IF ~got.ok \/ v.shape \notin {"fv3", "e3"} THEN Error("Invalid transaction", "")
        \* the Email handler's 3-tuple unpacks, with the redirect string
        \* as when: when + self._timeout raises TypeError
        ELSE IF v.shape = "e3" THEN Raises("TypeError")
        ELSE IF TimedOut(v.when, timeout["fv"], now)
        THEN Error("Transaction timed out", v.redir)
        ELSE FVExchange(v, hasError, hasCode, tok, cred, revoke)

\* The answers of the instance that a check_callback may meet; a request
\* that is never made has no answer to choose
FVAnswers(got) ==
    {a \in [hasError : BOOLEAN, hasCode : BOOLEAN,
            tok : {"ok", "status", "noaccess", "refused"},
            cred : FvCredentials, revoke : {"ok", "status", "refused"}] :
        /\ ~FVOpen(got) => (~a.hasError /\ ~a.hasCode)
        /\ (a.hasError \/ ~a.hasCode) => a.tok = "refused"
        /\ a.hasError => a.hasCode
        /\ a.tok # "ok" => a.cred.kind = "refused"
        /\ a.cred.kind = "refused" => a.revoke = "refused"}

\* verify_credentials answered, naming a url
FVAsked(got, a) ==
    FVOpen(got) /\ ~a.hasError /\ a.hasCode /\ a.tok = "ok" /\ a.cred.kind = "ok"

FV_check_callback(state) ==
    IF state = NoToken
    THEN /\ last' = Call("check_callback", "fv", state, NoToken, NoUrl, "", NoUrl,
                         Error("No transaction ID provided", "None"))
         /\ UNCHANGED <<store, verified>>
    ELSE LET popped == DictPop(store, storeMaxAge, state, now)
         IN  /\ store' = popped.store
             /\ \E a \in FVAnswers(popped.got) :
                    LET res == FVDecided(popped.got, a.hasError, a.hasCode, a.tok,
                                         a.cred, a.revoke)
                        asked == FVAsked(popped.got, a)
                    IN  /\ verified' = IF res.kind = "Verified"
                                       THEN verified \cup {state} ELSE verified
                        /\ last' = [answers |-> a] @@
                                   [Call("check_callback", "fv", state, NoToken,
                                         popped.got.val.id, "",
                                         IF asked THEN a.cred.url ELSE NoUrl, res)
                                    EXCEPT !.asked = asked,
                                           !.revoke = IF asked THEN a.revoke ELSE ""]


----------------------------------------------------------------------------
(* The login transactions of the three handlers over one DictStore, as     *)
(* from_config sets them up                                                *)

HandlerIds == {"e", "ia", "fv"}

\* A handler of the registry: its cb_id, the URLs its handles_url accepts and
\* the URLs whose page its handles_page accepts
Handler(cb_id, byUrl, byPage) == [cb_id |-> cb_id, byUrl |-> byUrl, byPage |-> byPage]
\* The cb_ids of the handlers that from_config has enabled
Configured == {handlers[i].cb_id : i \in DOMAIN handlers}
Config == <<storeMaxAge, timeout, pendingExpires, web, finger, handlers, procs,
           tokenStore>>

\* http://a.example/ redirects for good to https://a.example/, which declares
\* one endpoint; https://b.example/ declares another one
TxWeb ==
    [u \in IAUrls |->
        Page(TRUE, IF u.netloc = "a.example" THEN "https://auth.example/1"
                   ELSE "https://auth.example/2", "",
             IF u.netloc = "a.example" THEN Url("https", "a.example", "/") ELSE u)]

\* The three handlers as the registry sees them
HandlerOf(h) ==
    CASE h = "e" -> Handler("e", {u \in EmailIdUrls :
                                    u.scheme = "mailto" /\ validate_email(u.path)}, {})
      [] h = "ia" -> Handler("ia", {}, {u \in IAUrls : TxWeb[u].auth # ""})
      [] h = "fv" -> Handler("fv", FvIdUrls, {})

NoCall == Call("", "", NoToken, NoToken, NoUrl, "", NoUrl, NoResult)

Init ==
    /\ now = 0
    /\ store = <<>>
    /\ nextKey = 1
    /\ storeMaxAge \in {0, StoreAge}
    /\ handlers \in {<<HandlerOf(h)>> : h \in HandlerIds}
    /\ timeout = [h \in Configured |-> MaxTimeout]
    /\ pending = <<>>
    /\ pendingExpires \in {"e" \in Configured /\ b : b \in BOOLEAN}
    /\ sent = 0
    /\ cache = <<>>
    /\ profiles = <<>>
    /\ fvCache = NoFvCache
    /\ web = TxWeb
    /\ finger = <<>>
    /\ procs = <<>>
    /\ last = NoCall
    /\ verified = {}
    /\ revoked = {}
    /\ tokenStore = "DictStore"

\* Requests are served one at a time here: the disposition of a call is handed
\* to the application before the next request comes in
Idle == last = NoCall

Return ==
    /\ ~Idle
    /\ last' = NoCall
    /\ UNCHANGED <<now, store, pending, cache, profiles, nextKey, sent, fvCache,
                   verified, Config, revoked>>

\* A second passes
Tick ==
    /\ Idle
    /\ now < MaxTime
    /\ now' = now + 1
    \* the two ExpiringDicts of indieauth.py forget what has grown too old
    /\ cache' = Purge(cache, CacheAge, now + 1)
    /\ profiles' = Purge(profiles, CacheAge, now + 1)
    /\ UNCHANGED <<store, pending, nextKey, sent, fvCache, verified, last, Config, revoked>>

\* token_store.remove(key), called from outside the handlers
TokenRemove(key) ==
    /\ Idle
    /\ key \in DOMAIN store
    /\ store' = DictRemove(store, key)
    /\ UNCHANGED <<now, nextKey, pending, sent, cache, profiles, fvCache, verified,
                   last, Config, revoked>>

EmailInitiate ==
    /\ "e" \in Configured
    /\ Idle
    /\ \E id_url \in EmailIdUrls, redir \in Redirs :
        /\ Email_initiate_auth(id_url, CallbackUri, redir)
        /\ UNCHANGED <<now, cache, profiles, fvCache, verified, Config, revoked>>

EmailCallback ==
    /\ "e" \in Configured
    /\ Idle
    /\ \E gett \in Keys \cup {NoToken}, datat \in Keys \cup {NoToken} :
        /\ gett = NoToken \/ datat \in {NoToken, gett}
        /\ Email_check_callback(CallbackUri, gett, datat)
        /\ UNCHANGED <<now, nextKey, sent, cache, profiles, fvCache, Config, revoked>>

\* The identities that logins are asked for
IARequestIds == {Url("http", "a.example", "/")}

IAInitiate ==
    /\ "ia" \in Configured
    /\ Idle
    /\ \E id_url \in IARequestIds, redir \in Redirs :
        /\ IA_initiate_auth(id_url, CallbackUri, redir)
        /\ UNCHANGED <<now, pending, sent, fvCache, verified, Config, revoked>>

IACallback ==
    /\ "ia" \in Configured
    /\ Idle
    /\ \E state \in Keys \cup {NoToken} :
        /\ IA_check_callback(state)
        /\ UNCHANGED <<now, nextKey, pending, sent, fvCache, Config, revoked>>

FVInitiate ==
    /\ "fv" \in Configured
    /\ Idle
    /\ \E id_url \in FvIdUrls, redir \in Redirs, probeOk \in BOOLEAN,
       reg \in {"ok", "status", "refused"} :
        /\ FV_initiate_auth(id_url, CallbackUri, redir, probeOk, reg)
        /\ UNCHANGED <<now, pending, sent, cache, profiles, verified, Config, revoked>>

FVCallback ==
    /\ "fv" \in Configured
    /\ Idle
    /\ \E state \in Keys \cup {NoToken} :
        /\ FV_check_callback(state)
        /\ UNCHANGED <<now, nextKey, pending, sent, cache, profiles, fvCache,
                       Config, revoked>>

Next ==
    \/ Return
    \/ Tick
    \/ \E key \in Keys : TokenRemove(key)
    \/ EmailInitiate
    \/ EmailCallback
    \/ IAInitiate
    \/ IACallback
    \/ FVInitiate
    \/ FVCallback

Spec == Init /\ [][Next]_vars

----------------------------------------------------------------------------
(* Properties of the login transactions *)

\* The step in which a handler's check_callback is called and returns
CheckCallbackStep == Idle /\ last'.op = "check_callback"

\* The token the handler looks up in the store: the state parameter, or for
\* the Email handler the form field t of a request with no t in its query
Consumes(k) == last'.key = k /\ last'.gett = NoToken

\* C1: with a dict-backed token store, once check_callback has returned
\* Verified for a token, no later check_callback naming that token returns
\* Verified, and every later check_callback that looks it up returns an Error.
C1_ReplayRejected ==
    [][\A k \in verified :
        CheckCallbackStep =>
            /\ (last'.key = k \/ last'.gett = k) => last'.res.kind # "Verified"
            /\ Consumes(k) => last'.res.kind = "Error"]_vars

\* A replay of a verified token has been answered with an Error
C1_Witness ==
    /\ last.op = "check_callback"
    /\ last.key \in verified
    /\ last.res.kind = "Error"
    /\ last.res.message \in {"Invalid token", "Invalid transaction"}

\* The messages that contain "timed out"
TimedOutMessages == {"Transaction timed out", "Login timed out"}

\* The entry under k was put by a transaction whose timeout has passed
PastTimeout(k) ==
    /\ k \in DOMAIN store
    /\ CheckCallbackStep
    /\ Consumes(k)
    /\ now >= store[k].val.when + timeout[last'.h] + 1

\* C2 as stated: a check_callback processed at t0+W+1 or later returns an
\* Error whose message contains "timed out", whether or not the token
\* store has itself expired the entry by then.
C2_Original ==
    [][\A k \in Keys :
        PastTimeout(k) =>
            /\ last'.res.kind = "Error"
            /\ last'.res.message \in TimedOutMessages]_vars

\* C2, amended: a check_callback processed at t0+W+1 or later returns an
\* Error; it is the "timed out" Error carrying the transaction's redirect
\* when the token store still returns the entry, and the invalid-token Error
\* when the store has expired it.
C2_TimedOutWhileStored ==
    [][\A k \in Keys :
        PastTimeout(k) =>
            /\ last'.res.kind = "Error"
            /\ k \notin DOMAIN store'
            /\ IF Live(store, storeMaxAge, k, now)
               THEN /\ last'.res.message \in TimedOutMessages
                    /\ last'.res.redir = store[k].val.redir
               ELSE last'.res.message \in {"Invalid token", "Invalid transaction"}]_vars

\* A callback that came after the timeout has been told so
C2_Witness ==
    /\ last.op = "check_callback"
    /\ last.res.kind = "Error"
    /\ last.res.message \in TimedOutMessages
    /\ last.key \notin DOMAIN store

\* C3: Fediverse check_callback, when verify_credentials names a profile
\* URL whose domain, after joining it against the instance URL, differs from
\* the domain of the instance of the transaction, returns Error "Domains do
\* not match"; it returns Verified only when the two domains are equal.
C3_DomainMismatchRejected ==
    [][(CheckCallbackStep /\ last'.h = "fv" /\ last'.asked) =>
        LET same == urljoin(last'.id, last'.me).netloc = last'.id.netloc
        IN  /\ ~same => /\ last'.res.kind = "Error"
                        /\ last'.res.message = "Domains do not match"
            /\ last'.res.kind = "Verified" => same]_vars

\* C18: whatever an external HTTP call of a handler's initiate_auth or
\* check_callback meets (success, a status other than 200, a malformed body,
\* no connection, a timeout), the call returns a Disposition: no exception of
\* the network leaves it.
C18_NoNetworkException ==
    last.op \in {"initiate_auth", "check_callback"} => last.res # Raises("ConnectionError")

\* The Fediverse check_callback has got an access token from the token
\* exchange and verify_credentials has been answered
TokenYielded ==
    /\ CheckCallbackStep
    /\ last'.h = "fv"
    /\ FVOpen(DictGet(store, storeMaxAge, last'.key, now))
    /\ ~last'.answers.hasError
    /\ last'.answers.hasCode
    /\ last'.answers.tok = "ok"
    /\ last'.answers.cred.kind # "refused"

\* C19: once the token exchange of the Fediverse check_callback has yielded
\* an access token, the disposition returned is the one that verifying the
\* identity gave, Verified or Error, whatever the revocation request that
\* follows meets: a status other than 200 or a failure of the request itself
\* neither changes the result nor reaches the caller.
C19_RevocationNeverSurfaces ==
    [][TokenYielded =>
        last'.res = get_identity(store[last'.key].val.id, last'.answers.cred,
                                 store[last'.key].val.redir)]_vars

\* What the callback of the transaction stored under j would return over the
\* caches c and pc, for every answer the provider may give: the later outcome
\* of that transaction.  The Fediverse handler reads no cache here.
OutcomeOf(j, c, pc) ==
    LET got == DictGet(store, storeMaxAge, j, now)
    IN  IF "ia" \in Configured
        THEN [a \in [hasCode : BOOLEAN, resp : IAResponses] |->
                IF IAOpen(got) THEN IAVerifyOver(c, pc, got.val, a.hasCode, a.resp).res
                ELSE IADecided(got, a.hasCode, a.resp).res]
        ELSE [a \in FVAnswers(got) |->
                FVDecided(got, a.hasError, a.hasCode, a.tok, a.cred, a.revoke)]

\* C20: with a DictStore, every initiate_auth of the IndieAuth and Fediverse
\* handlers that succeeds puts an entry of its own under a state that no other
\* transaction has or had, also for the same identity; and a check_callback
\* for one state, whether it completes, times out or fails, leaves the entry
\* of every other pending transaction, and what its callback will return, as
\* they were.
C20_TransactionsIndependent ==
    [][/\ (Idle /\ last'.op = "initiate_auth" /\ last'.h \in {"ia", "fv"}
           /\ last'.res.kind = "Redirect") =>
            /\ last'.key \notin Issued
            /\ last'.key \in DOMAIN store'
            /\ last'.res.data = last'.key
            /\ \A j \in DOMAIN store : j \in DOMAIN store' /\ store'[j] = store[j]
       /\ (CheckCallbackStep /\ last'.h \in {"ia", "fv"}) =>
            \A j \in DOMAIN store \ {last'.key} :
                /\ j \in DOMAIN store'
                /\ store'[j] = store[j]
                /\ now' = now
                /\ \/ cache' = cache /\ profiles' = profiles
                   \/ OutcomeOf(j, cache', profiles') = OutcomeOf(j, cache, profiles)]_vars

\* Two logins for the same identity were pending; the callback of the first
\* has returned Verified and the entry of the second is still in the store
C20_Witness ==
    /\ last.op = "check_callback"
    /\ last.h \in {"ia", "fv"}
    /\ last.key = 1
    /\ last.res.kind = "Verified"
    /\ 1 \notin DOMAIN store
    /\ 2 \in DOMAIN store
    /\ store[2].val.id = last.id

\* The step in which the Email handler's initiate_auth is called with a
\* well-formed address and returns
EmailInitiateStep ==
    /\ Idle
    /\ last'.op = "initiate_auth"
    /\ last'.h = "e"
    /\ last'.id.scheme = "mailto"
    /\ validate_email(last'.id.path)

\* The address has a pending entry inside its window whose token the store
\* still holds unexpired
InPendingWindow(a) ==
    /\ a \in DOMAIN pending
    /\ (pendingExpires => now - pending[a].at < timeout["e"])
    /\ pending[a].val \in DOMAIN store
    /\ (storeMaxAge # 0 => now - store[pending[a].val].at < storeMaxAge)
    /\ now <= store[pending[a].val].val.when + timeout["e"]

\* The token pending for the address is gone from the store
PendingTokenGone(a) ==
    /\ a \in DOMAIN pending
    /\ pending[a].val \notin DOMAIN store

\* C6: a second initiate_auth for an address inside its pending window
\* returns Notify without sending and leaves the pending token as it is; once
\* the pending token has been removed from the token store, the next
\* initiate_auth for the address sends again and records a new token.
C6_SendsOncePerWindow ==
    [][EmailInitiateStep =>
        LET a == lower(last'.id.path)
        IN  /\ last'.res.kind = "Notify"
            /\ InPendingWindow(a) =>
                /\ sent' = sent
                /\ last'.msg = NoMsg
                /\ pending' = pending
                /\ store' = store
            /\ PendingTokenGone(a) =>
                /\ sent' = sent + 1
                /\ last'.msg.to = a
                /\ last'.msg.t = pending'[a].val
                /\ pending'[a].val # pending[a].val
                /\ pending'[a].val \notin DOMAIN store
                /\ pending'[a].val \in DOMAIN store']_vars

\* After the pending token was removed from the store the address was sent a
\* second message, and the call after that one sent nothing
C6_Witness ==
    /\ last.op = "initiate_auth"
    /\ last.res.kind = "Notify"
    /\ last.msg = NoMsg
    /\ sent = 2
    /\ now = 0
    /\ verified = {}
    /\ 1 \notin DOMAIN store
    /\ "user@example.com" \in DOMAIN pending
    /\ pending["user@example.com"].val = 2

\* The tokens in the store that were issued for the address and are unexpired:
\* the store still answers for them and their lifetime has not run out.  The
\* instant when + lifetime itself, at which line 136 still accepts the token
\* and an ExpiringDict of that age has dropped its entry, is left out.
LiveTokensFor(a) ==
    {k \in DOMAIN store :
        /\ Live(store, storeMaxAge, k, now)
        /\ store[k].val.shape = "e3"
        /\ store[k].val.id.path = a
        /\ now < store[k].val.when + timeout["e"]}

\* C23: initiate_auth of the Email handler for an address sends no new email
\* while an unexpired token issued before for that address is still in the
\* token store, whatever calls of initiate_auth and check_callback came
\* before, a callback that presented an older, expired token for the same
\* address included.
C23_NoResendWhileTokenLive ==
    [][EmailInitiateStep =>
        (LiveTokensFor(lower(last'.id.path)) # {} => sent' = sent /\ last'.msg = NoMsg)]_vars

\* C29: check_callback of the Email handler with the token among the GET
\* parameters returns NeedsPost carrying that token, never Verified, and
\* leaves the token store and the pending set as they are, so that after any
\* number of such calls a POST with the token inside its lifetime is still
\* answered with Verified; Verified is returned for a token of the form data
\* only.
C29_GetNeedsPost ==
    [][(CheckCallbackStep /\ last'.h = "e") =>
        /\ last'.gett # NoToken =>
            /\ last'.res = NeedsPost(CallbackUri, "Complete your login", last'.gett)
            /\ store' = store
            /\ pending' = pending
            /\ verified' = verified
        /\ last'.res.kind = "Verified" =>
            /\ last'.gett = NoToken
            /\ last'.key # NoToken
        /\ (/\ last'.gett = NoToken
            /\ Live(store, storeMaxAge, last'.key, now)
            /\ ~TimedOut(store[last'.key].val.when, timeout["e"], now))
           => last'.res.kind = "Verified"]_vars

\* A GET with a token has been answered with NeedsPost, a second has gone
\* by since the token was issued, and the token is still in the store and
\* pending for its address
C29_Witness ==
    /\ last.op = "check_callback"
    /\ last.h = "e"
    /\ last.res.kind = "NeedsPost"
    /\ last.gett \in DOMAIN store
    /\ now = store[last.gett].val.when + 1
    /\ \E a \in DOMAIN pending : pending[a].val = last.gett

\* C30: check_callback of the IndieAuth handler over a dict-backed store
\* removes the token of a known state from the store whatever the outcome
\* (Verified, timeout, missing code, error status of the endpoint, invalid
\* JSON, missing endpoint, endpoint mismatch) and leaves every other entry
\* alone; with no state it returns Error "No transaction provided" and with
\* a state the store does not know Error "Invalid token", and in both cases
\* the store holds what it held.
C30_KnownStateConsumed ==
    [][(CheckCallbackStep /\ last'.h = "ia") =>
        /\ last'.key = NoToken =>
            /\ last'.res = Error("No transaction provided", "")
            /\ store' = store
        /\ (last'.key # NoToken /\ ~Live(store, storeMaxAge, last'.key, now)) =>
            /\ last'.res = Error("Invalid token", "")
            /\ Purge(store', storeMaxAge, now) = Purge(store, storeMaxAge, now)
        /\ Live(store, storeMaxAge, last'.key, now) =>
            /\ store' = Drop(store, last'.key)
            /\ last'.res # Error("Invalid token", "")
            /\ last'.res.kind \in {"Verified", "Error", "Raises"}]_vars

\* A callback whose response named an identity with another endpoint has
\* been turned away, and its token is gone from the store
C30_Witness ==
    /\ last.op = "check_callback"
    /\ last.h = "ia"
    /\ last.res.kind = "Error"
    /\ last.res.message = "Authorization endpoint mismatch"
    /\ last.key \in Issued
    /\ last.key \notin DOMAIN store

\* The step in which check_callback of the IndieAuth or the Email handler
\* gets the entry of token k from the store after the handler's timeout
TimedOutStep(k) ==
    /\ CheckCallbackStep
    /\ Consumes(k)
    /\ last'.h \in {"ia", "e"}
    /\ Live(store, storeMaxAge, k, now)
    /\ now > store[k].val.when + timeout[last'.h]

EmailRoundTrip(recorded) ==
    /\ (EmailInitiateStep /\ sent' # sent) =>
        /\ sent' = sent + 1
        /\ last'.msg.t = last'.key
        /\ last'.msg.url = CallbackUri
        /\ last'.key \notin DOMAIN store
        /\ last'.key \in DOMAIN store'
        /\ store'[last'.key].val.id.path = recorded
        /\ store'[last'.key].val.redir = last'.redir
    /\ (CheckCallbackStep /\ last'.h = "e") =>
        /\ last'.gett # NoToken =>
            /\ last'.res.kind = "NeedsPost"
            /\ last'.res.data = last'.gett
            /\ store' = store
        /\ \A k \in DOMAIN store :
            (/\ Consumes(k)
             /\ Live(store, storeMaxAge, k, now)
             /\ now <= store[k].val.when + timeout["e"]) =>
                last'.res = Verified(Url("mailto", "", store[k].val.id.path),
                                     store[k].val.redir,
                                     {<<"email", store[k].val.id.path>>})

\* C7 as stated: initiate_auth('mailto:a', cb, dest) sends one message with
\* the token, the GET with the token returns NeedsPost carrying it, and the
\* POST with the token within the lifetime returns
\* Verified('mailto:a', dest, {'email': a}) for the a that was given.
C7_Original == [][EmailRoundTrip(last'.id.path)]_vars

\* C7, amended: the round trip ends in Verified('mailto:' + a.lower(), dest,
\* {'email': a.lower()}): the identity is the address in lower case.
C7_RoundTripLowerCase == [][EmailRoundTrip(lower(last'.id.path))]_vars

\* A login by email has gone through the round trip and been verified
C7_Witness ==
    /\ last.op = "check_callback"
    /\ last.h = "e"
    /\ last.res.kind = "Verified"
    /\ last.res.identity = Url("mailto", "", "user@example.com")
    /\ last.res.redir = "/other"
    /\ sent = 1

----------------------------------------------------------------------------
(* A DictStore on its own, authl/tokens.py: put, get, pop and remove called *)
(* in any order on values that get can and cannot turn into a tuple         *)

\* What is put: a transaction's tuple, or a value tuple() raises TypeError on
StoreValues == {Value("e3", Url("", "", "user@example.com"), "", 0, "/dest"),
                Value("scalar", NoUrl, "", 0, "")}

StoreCall(op, key, got) ==
    [Call(op, "store", key, NoToken, NoUrl, "", NoUrl, NoResult) EXCEPT !.got = got]

InitStore ==
    /\ now = 0
    /\ store = <<>>
    /\ nextKey = 1
    /\ storeMaxAge \in {0, StoreAge}
    /\ handlers = <<>>
    /\ timeout = <<>>
    /\ pending = <<>>
    /\ pendingExpires = FALSE
    /\ sent = 0
    /\ cache = <<>>
    /\ profiles = <<>>
    /\ fvCache = NoFvCache
    /\ web = <<>>
    /\ finger = <<>>
    /\ procs = <<>>
    /\ last = NoCall
    /\ verified = {}
    /\ revoked = {}
    /\ tokenStore = "DictStore"

StoreFrame ==
    UNCHANGED <<now, pending, sent, cache, profiles, fvCache, verified, Config>>

\* DictStore.put
StorePut ==
    /\ Idle
    /\ \E v \in StoreValues :
        /\ Put(v)
        /\ last' = StoreCall("put", nextKey, Got(TRUE, "", v))
    /\ UNCHANGED revoked
    /\ StoreFrame

\* DictStore.get
StoreGet ==
    /\ Idle
    /\ \E key \in Keys :
        last' = StoreCall("get", key, DictGet(store, storeMaxAge, key, now))
    /\ UNCHANGED <<store, nextKey, revoked>>
    /\ StoreFrame

\* TokenStore.pop
StorePop ==
    /\ Idle
    /\ \E key \in Keys :
        LET popped == DictPop(store, storeMaxAge, key, now)
        IN  /\ store' = popped.store
            /\ last' = StoreCall("pop", key, popped.got)
            /\ revoked' = revoked \cup ({key} \cap Issued)
    /\ UNCHANGED nextKey
    /\ StoreFrame

\* DictStore.remove
StoreRemove ==
    /\ Idle
    /\ \E key \in Keys :
        /\ store' = DictRemove(store, key)
        /\ last' = StoreCall("remove", key, NoGot)
        /\ revoked' = revoked \cup ({key} \cap Issued)
    /\ UNCHANGED nextKey
    /\ StoreFrame

NextStore ==
    \/ Return
    \/ Tick
    \/ StorePut
    \/ StoreGet
    \/ StorePop
    \/ StoreRemove

SpecStore == InitStore /\ [][NextStore]_vars

\* The store without the entry under k, every other entry as it was
Without(d, k) == [j \in DOMAIN d \ {k} |-> d[j]]

\* C10: pop(token) returns what get(token) returns and then removes the
\* token; when get fails, pop still removes the token and fails with get's
\* error; remove of a token that is absent changes nothing and raises
\* nothing, however often it is repeated.
C10_PopGetsThenRemoves ==
    [][/\ (Idle /\ last'.op = "pop") =>
            /\ last'.got = DictGet(store, storeMaxAge, last'.key, now)
            /\ store' = Without(store, last'.key)
       /\ (Idle /\ last'.op = "remove") =>
            /\ last'.got.exc = ""
            /\ store' = Without(store, last'.key)
            /\ last'.key \notin DOMAIN store => store' = store]_vars

\* A pop whose get raised TypeError on a stored value has removed the entry
C10_Witness ==
    /\ last.op = "pop"
    /\ ~last.got.ok
    /\ last.got.exc = "TypeError"
    /\ last.key < nextKey
    /\ last.key \notin DOMAIN store

----------------------------------------------------------------------------
(* A Serializer on its own, authl/tokens.py: the token is the value itself, *)
(* written as JSON and signed with the secret key by                        *)
(* itsdangerous.URLSafeSerializer                                           *)

\* Python values: strings and numbers, and tuples and lists of values
Str(x) == [t |-> "str", atom |-> x, items |-> <<>>]
Num(x) == [t |-> "num", atom |-> x, items |-> <<>>]
Tuple(items) == [t |-> "tuple", atom |-> "", items |-> items]
List(items) == [t |-> "list", atom |-> "", items |-> items]
Garbage == [t |-> "garbage", atom |-> "", items |-> <<>>]

\* What the handlers put: (dest_addr, redir, time.time()) of the Email handler
\* and (client.to_tuple(), time.time(), redir) of the Fediverse handler
EmailTuple == Tuple(<<Str("user@example.com"), Str("/dest"), Num(0)>>)
ClientTuple == Tuple(<<Str("https://m.example"), Str("client_id"), Str("secret")>>)
FvTuple == Tuple(<<ClientTuple, Num(0), Str("/dest")>>)
SerValues == {EmailTuple, FvTuple}

\* json.dumps and json.loads, the serializer of URLSafeSerializer: JSON has
\* arrays only, so a tuple is written as an array and read back as a list, at
\* every depth
RECURSIVE Json(_)
Json(v) ==
    IF v.t \in {"tuple", "list"}
    THEN List([i \in DOMAIN v.items |-> Json(v.items[i])])
    ELSE v

\* The signature of a payload under a key
SecretKey == "secret_key"
Sign(key, payload) == [key |-> key, of |-> payload]
Token(payload, sig) == [payload |-> payload, sig |-> sig]

\* Serializer.put: self._serializer.dumps(value)
SerPut(value) == Token(Json(value), Sign(SecretKey, Json(value)))

\* to_type, which is tuple: the list read back becomes a tuple, its items stay
\* as they were read
ToTuple(j) == IF j.t = "list" THEN Tuple(j.items) ELSE j

\* URLSafeSerializer.loads: BadSignature unless the signature is the one the
\* secret key gives the payload, BadPayload unless the payload is JSON
LoadsMutant(token) ==
    IF token.payload = Garbage THEN "BadPayload" ELSE ""
Loads(token) ==
    IF token.sig # Sign(SecretKey, token.payload) THEN "BadSignature"
    ELSE IF token.payload = Garbage THEN "BadPayload"
    ELSE ""

\* Serializer.get: BadData becomes KeyError
SerGet(token) ==
    IF Loads(token) # "" THEN Got(FALSE, "KeyError", NoValue)
    ELSE Got(TRUE, "", ToTuple(token.payload))

\* Serializer.remove: pass.  TokenStore.pop: get, and remove whatever get did
SerPop(token) == SerGet(token)

\* The tokens presented: the ones put returns, one with the payload of another
\* under its signature, one signed with another key, one that is no token at
\* all, and one whose signed payload is not JSON
SerTokens ==
    {SerPut(v) : v \in SerValues}
    \cup {Token(Json(EmailTuple), Sign(SecretKey, Json(FvTuple))),
          Token(Json(EmailTuple), Sign("other_key", Json(EmailTuple))),
          Token(Garbage, Sign("", Garbage)),
          Token(Garbage, Sign(SecretKey, Garbage))}

SerCall(op, token, value, got) ==
    [token |-> token, value |-> value] @@ StoreCall(op, NoToken, got)

InitSer ==
    /\ now = 0
    /\ store = <<>>
    /\ nextKey = 1
    /\ storeMaxAge = 0
    /\ handlers = <<>>
    /\ timeout = <<>>
    /\ pending = <<>>
    /\ pendingExpires = FALSE
    /\ sent = 0
    /\ cache = <<>>
    /\ profiles = <<>>
    /\ fvCache = NoFvCache
    /\ web = <<>>
    /\ finger = <<>>
    /\ procs = <<>>
    /\ last = NoCall
    /\ verified = {}
    /\ revoked = {}
    /\ tokenStore = "Serializer"

SerFrame ==
    UNCHANGED <<now, store, nextKey, pending, sent, cache, profiles, fvCache,
                verified, Config>>

\* Serializer.put
SerializerPut ==
    /\ Idle
    /\ \E value \in SerValues :
        last' = SerCall("put", SerPut(value), value, NoGot)
    /\ UNCHANGED revoked
    /\ SerFrame

\* Serializer.get
SerializerGet ==
    /\ Idle
    /\ \E token \in SerTokens :
        last' = SerCall("get", token, Garbage, SerGet(token))
    /\ UNCHANGED revoked
    /\ SerFrame

\* TokenStore.pop
SerializerPop ==
    /\ Idle
    /\ \E token \in SerTokens :
        /\ last' = SerCall("pop", token, Garbage, SerPop(token))
        /\ revoked' = revoked \cup {token}
    /\ SerFrame

\* Serializer.remove
SerializerRemove ==
    /\ Idle
    /\ \E token \in SerTokens :
        /\ last' = SerCall("remove", token, Garbage, NoGot)
        /\ revoked' = revoked \cup {token}
    /\ SerFrame

NextSer ==
    \/ Return
    \/ Tick
    \/ SerializerPut
    \/ SerializerGet
    \/ SerializerPop
    \/ SerializerRemove

SpecSer == InitSer /\ [][NextSer]_vars

\* A get or a pop of the token that put returns for value
ReadsBack(value) ==
    /\ Idle
    /\ last'.op \in {"get", "pop"}
    /\ last'.token = SerPut(value)

\* Whatever was called on a Serializer: put returns the same token for the
\* same value, pop and remove leave every token as readable as it was, and a
\* token that is malformed or tampered with is refused with KeyError
SerializerKeepsNothing ==
    /\ (Idle /\ last'.op = "put") => last'.token = SerPut(last'.value)
    /\ (Idle /\ last'.op \in {"get", "pop"}) =>
            /\ last'.got = SerGet(last'.token)
            /\ last'.token \notin {SerPut(v) : v \in SerValues} =>
                    /\ ~last'.got.ok
                    /\ last'.got.exc = "KeyError"
    /\ \A v \in SerValues : SerPut(v) \in revoked' => SerGet(SerPut(v)).ok

Flat(v) == \A i \in DOMAIN v.items : v.items[i].t \notin {"tuple", "list"}

----------------------------------------------------------------------------
(* The registry and the dispatcher, authl/__init__.py *)

\* The addresses looked up: two pages, a WebFinger address, and an address
\* of nothing but white space
PageX == Url("https", "x.example", "/")
PageY == Url("https", "y.example", "/")
Acct == Url("acct", "x.example", "u")
Blank == Url("", "", " ")
PageUrls == {PageX, PageY}
Addresses4 == PageUrls \cup {Acct, Blank}

\* str.strip()
strip(url) == IF url = Blank THEN NoUrl ELSE url

\* How deep get_handler_for_url and check_profiles may call each other
MaxDepth == 3

\* The handlers there are to register
CbIds == {"a", "b"}
AllHandlers ==
    {Handler(c, u, p) : c \in CbIds, u \in {{}, {PageX}, {PageY}, {Acct}},
                        p \in {{}, {PageY}}}

\* "return something truthy, e.g. a canonicized version of the URL": the
\* handlers called b return the URL in a form of their own, the others as it is
Canonical(h, url) ==
    IF h.cb_id = "b" THEN Url(url.scheme, url.netloc, url.path \o "#b") ELSE url

\* handler.handles_url(url): the canonical identity, or nothing
handles_url(h, url) == IF url \in h.byUrl THEN Canonical(h, url) ELSE NoUrl

\* handler.handles_page(profile, headers, content, links), decided on the
\* page that was served
handles_page(h, page) == page.url \in h.byPage

\* add_handler, line 46: cb_id in self._handlers
AlreadyHaveMutant(reg, cb_id) == FALSE
AlreadyHave(reg, cb_id) == \E i \in DOMAIN reg : reg[i].cb_id = cb_id

\* The first of the handlers at the places S in the order of the registry
FirstMutant(S) == CHOOSE i \in S : \A j \in S : j <= i
First(S) == CHOOSE i \in S : \A j \in S : i <= j

\* _match_url(url)
match_urlMutant(reg, url) == NoMatch
match_url(reg, url) ==
    LET hits == {i \in DOMAIN reg : handles_url(reg[i], url) # NoUrl}
    IN  IF hits = {} THEN NoMatch
        ELSE Match(First(hits), reg[First(hits)].cb_id,
                   handles_url(reg[First(hits)], url), "url")

\* the loop of lines 100-103
match_page(reg, page) ==
    LET hits == {i \in DOMAIN reg : handles_page(reg[i], page)}
    IN  IF hits = {} THEN NoMatch
        ELSE Match(First(hits), reg[First(hits)].cb_id, page.url, "page")

\* utils.request_url(url): the response, if there is one
request_url(w, url) == IF url \in DOMAIN w /\ w[url].ok THEN {w[url]} ELSE {}

\* webfinger.get_profiles(url), in the order the set is iterated
get_profiles(wf, url) == IF url \in DOMAIN wf THEN wf[url] ELSE <<>>

\* Python gives up a recursion that goes too deep
TooDeep == Match(0, "", NoUrl, "RecursionError")

\* line 90: if profile != url
RedirectedMutant(profile, url) == FALSE
Redirected(profile, url) == profile # url

RECURSIVE get_handler_for_url(_, _, _, _, _), check_profiles(_, _, _, _, _)

\* check_profiles(profiles): the first profile that resolves to a handler
check_profiles(reg, w, wf, profs, fuel) ==
    IF profs = <<>> THEN NoMatch
    ELSE LET resp == get_handler_for_url(reg, w, wf, Head(profs), fuel)
         IN  IF resp.handler # 0 \/ resp = TooDeep THEN resp
             ELSE check_profiles(reg, w, wf, Tail(profs), fuel)

\* get_handler_for_url(url)
get_handler_for_url(reg, w, wf, address, fuel) ==
    LET url == strip(address)
        by_finger == check_profiles(reg, w, wf, get_profiles(wf, url), fuel - 1)
        by_url == match_url(reg, url)
        request == request_url(w, url)
        page == CHOOSE pg \in request : TRUE
        profile == permanent_url(page)
        by_profile == IF Redirected(profile, url)
                      THEN [match_url(reg, profile) EXCEPT !.stage = "permanent"]
                      ELSE NoMatch
        by_page == match_page(reg, page)
        \* utils.extract_rel('me', profile, soup, request.links)
        by_me == check_profiles(reg, w, wf, page.me, fuel - 1)
    IN  IF fuel = 0 THEN TooDeep
        ELSE IF url = NoUrl THEN NoMatch
        ELSE IF by_finger.handler # 0 \/ by_finger = TooDeep THEN by_finger
        ELSE IF by_url.handler # 0 THEN by_url
        ELSE IF request = {} THEN NoMatch
        ELSE IF by_profile.handler # 0 THEN by_profile
        ELSE IF by_page.handler # 0 THEN by_page
        ELSE IF by_me.handler # 0 \/ by_me = TooDeep THEN by_me
        ELSE NoMatch

\* What a call of get_handler_for_url has asked of the world and of the
\* handlers: the URLs given to utils.request_url, the addresses whose WebFinger
\* query was sent, the URLs handles_url was called with and the pages
\* handles_page was called with
AskedOf(requested, fingered, byUrl, byPage) ==
    [requested |-> requested, fingered |-> fingered, byUrl |-> byUrl, byPage |-> byPage]
NothingAsked == AskedOf({}, {}, {}, {})
Both(a, b) ==
    AskedOf(a.requested \cup b.requested, a.fingered \cup b.fingered,
            a.byUrl \cup b.byUrl, a.byPage \cup b.byPage)

RECURSIVE asked_for_url(_, _, _, _, _), asked_for_profiles(_, _, _, _, _)

\* check_profiles(profiles), what it asks on its way
asked_for_profiles(reg, w, wf, profs, fuel) ==
    IF profs = <<>> THEN NothingAsked
    ELSE LET resp == get_handler_for_url(reg, w, wf, Head(profs), fuel)
             asked == asked_for_url(reg, w, wf, Head(profs), fuel)
         IN  IF resp.handler # 0 \/ resp = TooDeep THEN asked
             ELSE Both(asked, asked_for_profiles(reg, w, wf, Tail(profs), fuel))

\* get_handler_for_url(url), what it asks on its way
asked_for_url(reg, w, wf, address, fuel) ==
    LET url == strip(address)
        by_finger == check_profiles(reg, w, wf, get_profiles(wf, url), fuel - 1)
        request == request_url(w, url)
        page == CHOOSE pg \in request : TRUE
        profile == permanent_url(page)
        tried == IF reg = <<>> THEN {} ELSE {url}
        again == IF reg = <<>> \/ profile = url THEN {} ELSE {profile}
        a1 == Both(AskedOf({}, {url} \cap DOMAIN wf, {}, {}),
                   asked_for_profiles(reg, w, wf, get_profiles(wf, url), fuel - 1))
        a2 == Both(a1, AskedOf({}, {}, tried, {}))
        a3 == Both(a2, AskedOf({url}, {}, {}, {}))
        a4 == Both(a3, AskedOf({}, {}, again, {}))
        a5 == Both(a4, AskedOf({}, {}, {}, IF reg = <<>> THEN {} ELSE {page}))
        a6 == Both(a5, asked_for_profiles(reg, w, wf, page.me, fuel - 1))
    IN  IF fuel = 0 \/ url = NoUrl THEN NothingAsked
        ELSE IF by_finger.handler # 0 \/ by_finger = TooDeep THEN a1
        ELSE IF match_url(reg, url).handler # 0 THEN a2
        ELSE IF request = {} THEN a3
        ELSE IF profile # url /\ match_url(reg, profile).handler # 0 THEN a4
        ELSE IF match_page(reg, page).handler # 0 THEN a5
        ELSE a6

\* The pages there may be at the two URLs
PagesX ==
    {WebPage(FALSE, "", "", PageX, PageX, <<>>)} \cup
    {WebPage(TRUE, "", "", pu[1], pu[2], me) :
        pu \in {<<PageX, PageX>>, <<PageX, PageY>>, <<PageY, PageY>>},
        me \in {<<>>, <<PageY>>, <<Acct, PageY>>}}
PagesY == {WebPage(TRUE, "", "", PageY, PageY, me) : me \in {<<>>, <<PageX>>}}
Fingers == {<<>>, <<PageX>>, <<PageY, PageX>>}

RegCall(op, cb_id, address, res, found) ==
    [Call(op, cb_id, NoToken, NoToken, address, "", NoUrl, res) EXCEPT !.found = found]
Lookup(address, found, asked) ==
    [asks |-> asked] @@ RegCall("get_handler_for_url", "", address, NoResult, found)

InitReg ==
    /\ now = 0
    /\ store = <<>>
    /\ nextKey = 1
    /\ storeMaxAge = 0
    /\ handlers = <<>>
    /\ timeout = <<>>
    /\ pending = <<>>
    /\ pendingExpires = FALSE
    /\ sent = 0
    /\ cache = <<>>
    /\ profiles = <<>>
    /\ fvCache = NoFvCache
    /\ web \in {[u \in PageUrls |-> IF u = PageX THEN x ELSE y] : x \in PagesX, y \in PagesY}
    /\ finger \in {[u \in {Acct} |-> f] : f \in Fingers}
    /\ procs = <<>>
    /\ last = NoCall
    /\ verified = {}
    /\ revoked = {}
    /\ tokenStore = "DictStore"

RegFrame ==
    UNCHANGED <<now, store, nextKey, storeMaxAge, timeout, pending, pendingExpires, sent,
                cache, profiles, fvCache, web, finger, procs, verified, revoked,
                tokenStore>>

\* Authl.add_handler(handler)
AddHandler ==
    /\ Idle
    /\ \E handler \in AllHandlers :
        IF AlreadyHave(handlers, handler.cb_id)
        THEN /\ last' = RegCall("add_handler", handler.cb_id, NoUrl, Raises("ValueError"),
                                NoMatch)
             /\ UNCHANGED handlers
        ELSE /\ handlers' = Append(handlers, handler)
             /\ last' = RegCall("add_handler", handler.cb_id, NoUrl, NoResult, NoMatch)
    /\ RegFrame

\* Authl.get_handler_for_url(url)
GetHandlerForUrl ==
    /\ Idle
    /\ \E address \in Addresses4 :
        last' = Lookup(address,
                       get_handler_for_url(handlers, web, finger, address, MaxDepth),
                       asked_for_url(handlers, web, finger, address, MaxDepth))
    /\ UNCHANGED handlers
    /\ RegFrame

NextReg ==
    \/ Return
    \/ AddHandler
    \/ GetHandlerForUrl

SpecReg == InitReg /\ [][NextReg]_vars

\* The step in which get_handler_for_url is called and returns
LookupStep == Idle /\ last'.op = "get_handler_for_url"

\* The places of the registry whose handler accepts the URL, and whose
\* handler accepts the page
UrlHits(url) == {i \in DOMAIN handlers : url \in handlers[i].byUrl}
PageHits(page) == {i \in DOMAIN handlers : page.url \in handlers[i].byPage}

\* The handler returned is the one at the least of the places S
ReturnsFirstOf(S) ==
    /\ last'.found.handler \in S
    /\ \A j \in S : last'.found.handler <= j
    /\ last'.found.hid = handlers[last'.found.handler].cb_id

\* C8: when two or more registered handlers match an address at the same
\* stage (by the literal URL, by the URL it permanently redirects to, or by
\* the content of its page), get_handler_for_url returns the one registered
\* first, together with that handler's cb_id.
C8_FirstRegisteredWins ==
    [][LookupStep =>
        LET url == strip(last'.id)
            fetched == url \in DOMAIN web /\ web[url].ok
                       /\ get_profiles(finger, url) = <<>> /\ UrlHits(url) = {}
            page == web[url]
        IN  /\ (get_profiles(finger, url) = <<>> /\ Cardinality(UrlHits(url)) >= 2)
                => ReturnsFirstOf(UrlHits(url))
            /\ (fetched /\ page.perm # url /\ Cardinality(UrlHits(page.perm)) >= 2)
                => ReturnsFirstOf(UrlHits(page.perm))
            /\ (fetched /\ (page.perm # url => UrlHits(page.perm) = {})
                /\ Cardinality(PageHits(page)) >= 2)
                => /\ ReturnsFirstOf(PageHits(page))
                   /\ last'.found.profile = page.url]_vars

\* Two handlers accept the page of the address; the first one was returned
C8_Witness ==
    /\ last.op = "get_handler_for_url"
    /\ last.found.stage = "page"
    /\ last.found.handler = 1
    /\ last.found.hid = handlers[1].cb_id
    /\ Len(handlers) = 2
    /\ \A i \in DOMAIN handlers : last.found.profile \in handlers[i].byPage

\* C9: add_handler with a handler whose cb_id is already registered raises
\* ValueError and leaves the registry unchanged; the registry always holds
\* at most one handler per cb_id, and a successful add_handler puts the
\* handler behind the ones registered before it.
C9_UniqueCbIds ==
    /\ [](\A i, j \in DOMAIN handlers : handlers[i].cb_id = handlers[j].cb_id => i = j)
    /\ [][(Idle /\ last'.op = "add_handler") =>
            IF \E i \in DOMAIN handlers : handlers[i].cb_id = last'.h
            THEN /\ last'.res = Raises("ValueError")
                 /\ handlers' = handlers
            ELSE /\ last'.res.kind # "Raises"
                 /\ Len(handlers') = Len(handlers) + 1
                 /\ SubSeq(handlers', 1, Len(handlers)) = handlers
                 /\ handlers'[Len(handlers')].cb_id = last'.h]_vars

\* A second handler with the cb_id of a registered one has been turned down
C9_Witness ==
    /\ last.op = "add_handler"
    /\ last.res = Raises("ValueError")
    /\ Len(handlers) = 2
    /\ \E i \in DOMAIN handlers : handlers[i].cb_id = last.h

C14_NoMatchIsNone ==
    [][LookupStep =>
        /\ strip(last'.id) = NoUrl =>
                /\ last'.found = NoMatch
                /\ last'.asks = NothingAsked
        /\ last'.found.handler = 0 => last'.found = NoMatch]_vars

\* C37: when the fetch of the address succeeds and the permanent URL of
\* the response differs from the address fetched, handles_url is asked
\* about the permanent URL, in the order of the registry, before any
\* handler is shown the page: the first handler that accepts it is returned
\* with the identity its handles_url returned for the permanent URL, and
\* neither handles_page nor a rel="me" link has been consulted.
C37_PermanentUrlRematched ==
    [][LookupStep =>
        LET url == strip(last'.id)
            page == web[url]
        IN  (/\ url \in DOMAIN web /\ web[url].ok
             /\ get_profiles(finger, url) = <<>>
             /\ UrlHits(url) = {}
             /\ page.perm # url) =>
                /\ handlers # <<>> => page.perm \in last'.asks.byUrl
                /\ UrlHits(page.perm) # {} =>
                    /\ ReturnsFirstOf(UrlHits(page.perm))
                    /\ last'.found.profile =
                            handles_url(handlers[last'.found.handler], page.perm)
                    /\ last'.found.stage = "permanent"
                    /\ last'.asks.byPage = {}
                    /\ last'.asks.requested = {url}]_vars

\* The address redirects for good to a URL that the second handler accepts
\* as written and the first handler would accept by the content of its
\* page: the second handler was returned, with its own form of that URL
C37_Witness ==
    /\ last.op = "get_handler_for_url"
    /\ last.id = PageX
    /\ web[PageX].perm = PageY
    /\ Len(handlers) = 2
    /\ PageY \in handlers[1].byPage
    /\ last.found.handler = 2
    /\ last.found.hid = "b"
    /\ last.found.stage = "permanent"
    /\ last.found.profile = Url("https", "y.example", "/#b")

\* The candidates in the opposite order
Reverse(profs) == [i \in 1..Len(profs) |-> profs[Len(profs) + 1 - i]]

\* C39: what get_handler_for_url returns is decided by the address, the
\* registry in its order and the content of the web: when the WebFinger
\* candidate set of the address holds several URLs, the lookup returns the
\* same whichever way the set is iterated, and the handler returned is the
\* one of highest priority among the handlers that the candidates resolve to.
C39_CandidateOrderIrrelevant ==
    [][LookupStep =>
        LET url == strip(last'.id)
            candidates == get_profiles(finger, url)
            resolved == {get_handler_for_url(handlers, web, finger, candidates[i],
                                             MaxDepth - 1).handler :
                            i \in DOMAIN candidates} \ {0}
            turned == get_handler_for_url(handlers, web,
                                          [u \in DOMAIN finger |-> Reverse(finger[u])],
                                          last'.id, MaxDepth)
        IN  \* lookups that end in a RecursionError either way are set aside
            (/\ Len(candidates) >= 2
             /\ last'.found.stage # "RecursionError"
             /\ turned.stage # "RecursionError") =>
                /\ last'.found.handler = turned.handler
                /\ resolved # {} => ReturnsFirstOf(resolved)]_vars

\* C40: when a handler matches by the content of the page, the canonical
\* identity that get_handler_for_url returns is the URL that the handler's
\* handles_page was given, the permanent URL of the fetch, also when the
\* fetch went through a temporary redirect.
C40_PageIdentityIsPermanentUrl ==
    [][LookupStep =>
        LET url == strip(last'.id)
            page == web[url]
        IN  (/\ url \in DOMAIN web /\ web[url].ok
             /\ get_profiles(finger, url) = <<>>
             /\ UrlHits(url) = {} /\ UrlHits(permanent_url(page)) = {}
             /\ PageHits(page) # {}) =>
                /\ ReturnsFirstOf(PageHits(page))
                /\ last'.found.stage = "page"
                /\ last'.found.profile = permanent_url(page)]_vars

\* The pages whose rel="me" links lead from one to the other and back
MeCycle ==
    \E a \in PageUrls, b \in PageUrls :
        /\ a # b
        /\ web[a].ok /\ b \in {web[a].me[i] : i \in DOMAIN web[a].me}
        /\ web[b].ok /\ a \in {web[b].me[i] : i \in DOMAIN web[b].me}

\* C25: get_handler_for_url returns for every address over every set of
\* pages, never recursing without end, also when the rel="me" links of the
\* pages form a cycle; when the links form a cycle and no handler is
\* registered, it returns (None, '', '').
C25_TerminatesOnCycles ==
    [][LookupStep =>
        /\ last'.found.stage # "RecursionError"
        /\ (MeCycle /\ handlers = <<>>) => last'.found = NoMatch]_vars

\* C15: when the page fetched matches no handler, neither by its literal URL
\* nor by its content, each URL of a rel="me" link of the page is resolved as
\* an address of its own, and the first of them that resolves to a handler is
\* returned with the canonical identity of that candidate; the rel="me"
\* links are looked at only after handles_page has failed for every handler.
C15_RelMeFallback ==
    [][LookupStep =>
        LET url == strip(last'.id)
            page == web[url]
            \* the candidates that resolve to a handler when looked up alone
            resolving == {i \in DOMAIN page.me :
                            get_handler_for_url(handlers, web, finger, page.me[i],
                                                MaxDepth).handler # 0}
            first == CHOOSE i \in resolving : \A j \in resolving : i <= j
        IN  (/\ url \in DOMAIN web /\ web[url].ok
             /\ get_profiles(finger, url) = <<>>
             /\ UrlHits(url) = {} /\ UrlHits(page.perm) = {} /\ PageHits(page) = {}
             /\ resolving # {}) =>
                /\ last'.found = get_handler_for_url(handlers, web, finger,
                                                     page.me[first], MaxDepth)
                /\ page \in last'.asks.byPage]_vars

----------------------------------------------------------------------------
(* webfinger.get_profiles, authl/webfinger.py, on addresses written as      *)
(* sequences of the pieces the regular expression tells apart               *)

\* How long an address may be
MaxAddrLen == 4

\* "@", "acct:", and two characters that are neither
Pieces == {"@", "acct:", "u", "d"}
RECURSIVE SeqsUpTo(_)
SeqsUpTo(n) ==
    IF n = 0 THEN {<<>>}
    ELSE SeqsUpTo(n - 1) \cup
         {Append(q, c) : q \in {r \in SeqsUpTo(n - 1) : Len(r) = n - 1}, c \in Pieces}
FingerAddresses == SeqsUpTo(MaxAddrLen)

\* re.match(r'(@|acct:)([^@]+)@(.*)$', url): where the "@" that ends the
\* user stands, 0 when the address does not match
UserEndMutant(url) ==
    IF Len(url) >= 2 /\ url[2] # "@" /\ \E i \in 3..Len(url) : url[i] = "@"
    THEN CHOOSE i \in 3..Len(url) : url[i] = "@" /\ \A j \in 3..(i - 1) : url[j] # "@"
    ELSE 0
UserEnd(url) ==
    IF Len(url) >= 2 /\ url[1] \in {"@", "acct:"} /\ url[2] # "@"
       /\ \E i \in 3..Len(url) : url[i] = "@"
    THEN CHOOSE i \in 3..Len(url) : url[i] = "@" /\ \A j \in 3..(i - 1) : url[j] # "@"
    ELSE 0

\* f'https://{domain}/@{user}'
ProfileGuess(user, domain) == Url("https", domain, <<"/", "@">> \o user)

\* What the query may meet: no connection, or a response with a status and a
\* body that is a WebFinger document, a JSON object without links, or no JSON
Link(rel, href) == [rel |-> rel, href |-> href]
FingerLinks ==
    {<<>>,
     <<Link("self", "https://p.example/u"), Link("posts", "https://p.example/posts")>>,
     <<Link("profile", "https://p.example/u"),
       Link("http://webfinger.net/rel/profile-page", "https://q.example/u")>>}
Response(kind, status, body, links) ==
    [kind |-> kind, status |-> status, body |-> body, links |-> links]
NoResponse == Response("", 0, "", <<>>)
FingerResponses ==
    {Response("refused", 0, "", <<>>)}
    \cup {Response("answer", st, "links", l) : st \in {200, 404}, l \in FingerLinks}
    \cup {Response("answer", st, b, <<>>) :
            st \in {200, 204, 404, 500}, b \in {"nolinks", "malformed"}}

\* 200 <= request.status_code < 300
SuccessMutant(status) == status = 200
Success(status) == 200 <= status /\ status < 300

\* get_profiles(url): the set returned and the number of requests sent.  Any
\* exception inside the try, be it from requests.get or from reading the
\* document, gives the empty set.
Profiles(result, requests) == [result |-> result, requests |-> requests]
webfinger_get_profiles(url, response) ==
    LET end == UserEnd(url)
        user == SubSeq(url, 2, end - 1)
        domain == SubSeq(url, end + 1, Len(url))
    IN  IF end = 0 THEN Profiles({}, 0)
        \* requests refuses a URL without a host: InvalidURL, nothing is sent
        ELSE IF domain = <<>> THEN Profiles({}, 0)
        ELSE IF response.kind = "refused" THEN Profiles({}, 1)
        ELSE IF ~Success(response.status)
             THEN Profiles({ProfileGuess(user, domain)}, 1)
        ELSE IF response.body # "links" THEN Profiles({}, 1)
        ELSE Profiles({response.links[i].href :
                         i \in {j \in DOMAIN response.links :
                                  response.links[j].rel \in
                                      {"http://webfinger.net/rel/profile-page",
                                       "profile", "self"}}}, 1)

FingerCall(address, response, profs) ==
    [address |-> address, response |-> response, profs |-> profs]
    @@ Call("get_profiles", "", NoToken, NoToken, NoUrl, "", NoUrl, NoResult)

InitFinger ==
    /\ now = 0
    /\ store = <<>>
    /\ nextKey = 1
    /\ storeMaxAge = 0
    /\ handlers = <<>>
    /\ timeout = <<>>
    /\ pending = <<>>
    /\ pendingExpires = FALSE
    /\ sent = 0
    /\ cache = <<>>
    /\ profiles = <<>>
    /\ fvCache = NoFvCache
    /\ web = <<>>
    /\ finger = <<>>
    /\ procs = <<>>
    /\ last = NoCall
    /\ verified = {}
    /\ revoked = {}
    /\ tokenStore = "DictStore"

\* webfinger.get_profiles(url)
GetProfiles ==
    /\ Idle
    /\ \E url \in FingerAddresses, response \in FingerResponses :
        /\ UserEnd(url) = 0 => response = Response("refused", 0, "", <<>>)
        /\ last' = FingerCall(url, response, webfinger_get_profiles(url, response))
    /\ UNCHANGED <<now, store, nextKey, pending, sent, cache, profiles, fvCache,
                   verified, revoked, Config>>

NextFinger ==
    \/ Return
    \/ GetProfiles

SpecFinger == InitFinger /\ [][NextFinger]_vars

\* The ways to read the address as prefix, user, "@", domain, the user without
\* an "@" and neither user nor domain empty
OfTheForm(url) ==
    {ud \in {<<SubSeq(url, 2, i - 1), SubSeq(url, i + 1, Len(url))>> : i \in 3..Len(url)} :
        /\ ud[1] # <<>>
        /\ ud[2] # <<>>
        /\ \A i \in DOMAIN ud[1] : ud[1][i] # "@"
        /\ \E prefix \in {"@", "acct:"} : url = <<prefix>> \o ud[1] \o <<"@">> \o ud[2]}

\* C16: for an address @user@domain or acct:user@domain whose WebFinger
\* query is answered with a status outside 200..299, get_profiles returns the
\* set of the one URL https://domain/@user; for an address that is not of
\* that form it returns the empty set and sends no request.
C16_GuessOnBadStatus ==
    [][(Idle /\ last'.op = "get_profiles") =>
        LET parts == OfTheForm(last'.address)
        IN  /\ \A ud \in parts :
                (/\ last'.response.kind = "answer"
                 /\ (last'.response.status < 200 \/ last'.response.status >= 300))
                => last'.profs = Profiles({ProfileGuess(ud[1], ud[2])}, 1)
            /\ parts = {} => last'.profs = Profiles({}, 0)]_vars

\* acct:u@d was asked for, the query came back with 404 and a body that is no
\* JSON, and the guess https://d/@u was returned
C16_Witness ==
    /\ last.op = "get_profiles"
    /\ last.address = <<"acct:", "u", "@", "d">>
    /\ last.response = Response("answer", 404, "malformed", <<>>)
    /\ last.profs = Profiles({Url("https", <<"d">>, <<"/", "@", "u">>)}, 1)

\* C17: for @user@domain, when the WebFinger query is answered with a 2xx
\* status and a body that is not JSON, the candidates are the one guess
\* https://domain/@user, as they are for a status outside 200..299.
C17_Original ==
    [][(Idle /\ last'.op = "get_profiles") =>
        \A ud \in OfTheForm(last'.address) :
            (/\ last'.response.kind = "answer"
             /\ last'.response.status \in 200..299
             /\ last'.response.body = "malformed")
            => last'.profs.result = {ProfileGuess(ud[1], ud[2])}]_vars

\* C17, amended: for @user@domain, when the WebFinger query is answered with
\* a 2xx status and a body that is not JSON, or is JSON without links, there
\* is no candidate at all; the guess https://domain/@user is made only for a
\* status outside 200..299, whatever the body.
C17_NoGuessOnMalformedJson ==
    [][(Idle /\ last'.op = "get_profiles") =>
        \A ud \in OfTheForm(last'.address) :
            /\ (/\ last'.response.kind = "answer"
                /\ last'.response.status \in 200..299
                /\ last'.response.body \in {"malformed", "nolinks"})
               => last'.profs = Profiles({}, 1)
            /\ (/\ last'.response.kind = "answer"
                /\ last'.response.status \notin 200..299)
               => last'.profs = Profiles({ProfileGuess(ud[1], ud[2])}, 1)]_vars

\* @u@d was asked for, the query came back with 204 and a body that is no
\* JSON, and no candidate was returned
C17_Witness ==
    /\ last.op = "get_profiles"
    /\ last.address = <<"@", "u", "@", "d">>
    /\ last.response = Response("answer", 204, "malformed", <<>>)
    /\ last.profs = Profiles({}, 1)

----------------------------------------------------------------------------
(* verify_id and find_endpoint of authl/handlers/indieauth.py over the      *)
(* pages there may be at the three URLs                                     *)

\* A URL that redirects for good serves the page of the URL it leads to
Consistent(w) ==
    \A u \in DOMAIN w :
        w[u].perm # u => /\ w[w[u].perm].ok
                         /\ w[w[u].perm].perm = w[u].perm
                         /\ w[u].auth = w[w[u].perm].auth
                         /\ w[u].wm = w[w[u].perm].wm

Webs == {w \in [IAUrls -> UNION {Pages(u) : u \in IAUrls}] :
            /\ \A u \in IAUrls : w[u] \in Pages(u) /\ w[u].wm = ""
            /\ Consistent(w)}

\* What a call of a function of indieauth.py returned: a URL, or an exception
Returns(url) == Disposition("Returns", "", "", url, {}, "", NoToken)

InitVerify ==
    /\ now = 0
    /\ store = <<>>
    /\ nextKey = 1
    /\ storeMaxAge = 0
    /\ handlers = <<>>
    /\ timeout = <<>>
    /\ pending = <<>>
    /\ pendingExpires = FALSE
    /\ sent = 0
    /\ cache = <<>>
    /\ profiles = <<>>
    /\ fvCache = NoFvCache
    /\ web \in Webs
    /\ finger = <<>>
    /\ procs = <<>>
    /\ last = NoCall
    /\ verified = {}
    /\ revoked = {}
    /\ tokenStore = "DictStore"

VerifyFrame ==
    UNCHANGED <<now, store, nextKey, pending, sent, fvCache, verified, Config, revoked>>

\* find_endpoint(id_url)
FindEndpoint ==
    /\ Idle
    /\ \E id_url \in IAUrls :
        LET found == find_endpoint(cache, web, id_url, now)
        IN  /\ cache' = found.cache
            /\ profiles' = Stash(profiles, found.prefill, now)
            /\ last' = [fetched |-> found.fetched] @@
                       [Call("find_endpoint", "ia", NoToken, NoToken, id_url, "", NoUrl,
                             Returns(found.profile))
                        EXCEPT !.res.url = found.endpoints.auth]
    /\ VerifyFrame

\* verify_id(request_id, response_id)
VerifyId ==
    /\ Idle
    /\ \E request_id \in IAUrls, response_id \in IAUrls :
        LET checked == verify_id(cache, web, request_id, response_id, now)
        IN  /\ cache' = checked.cache
            /\ profiles' = Stash(profiles, checked.prefill, now)
            /\ last' = Call("verify_id", "ia", NoToken, NoToken, request_id, "",
                            response_id,
                            IF checked.ok THEN Returns(checked.id)
                            ELSE Raises("ValueError"))
    /\ VerifyFrame

NextVerify ==
    \/ Return
    \/ Tick
    \/ FindEndpoint
    \/ VerifyId

SpecVerify == InitVerify /\ [][NextVerify]_vars

\* The authorization_endpoint that the page at the URL declares
Declared(u) == IF web[u].ok THEN web[u].auth ELSE ""

\* The step in which verify_id is called with two different URLs and returns
VerifyStep == Idle /\ last'.op = "verify_id" /\ last'.id # last'.me

\* C4 as stated: verify_id(A, B) with A different from B succeeds if and only
\* if the authorization_endpoint discovered for A equals the one discovered
\* for B, and fails with ValueError in every other case.
C4_Original ==
    [][VerifyStep =>
        /\ last'.res.kind = "Returns" <=> Declared(last'.id) = Declared(last'.me)
        /\ last'.res.kind # "Returns" => last'.res = Raises("ValueError")]_vars

\* C4, amended: verify_id(A, B) with A different from B succeeds if and only
\* if an authorization_endpoint is discovered for B and the one discovered for
\* A equals it; in every other case, that of neither URL declaring an
\* endpoint included, it fails with ValueError.
C4_SameDiscoveredEndpoint ==
    [][VerifyStep =>
        /\ last'.res.kind = "Returns" <=>
            (Declared(last'.me) # "" /\ Declared(last'.id) = Declared(last'.me))
        /\ last'.res.kind # "Returns" => last'.res = Raises("ValueError")]_vars

\* verify_id has accepted a response URL on another domain than the request's
C4_Witness ==
    /\ last.op = "verify_id"
    /\ last.res.kind = "Returns"
    /\ last.id.netloc # last.me.netloc
    /\ web[last.id].perm = last.id
    /\ web[last.me].perm = last.me

\* The step in which find_endpoint(id_url) is called and returns
FindStep == Idle /\ last'.op = "find_endpoint"

\* The endpoint cache has an entry with endpoints for the URL
Cached(c, u) == Live(c, CacheAge, u, now) /\ c[u].val.endpoints # NoEndpoints

\* C35: a lookup that found an endpoint is cached, with its profile URL,
\* under the requested URL and under the permanent URL; a lookup of a URL
\* that has such an entry returns the entry's endpoints and profile URL
\* without a request; a lookup that found no endpoint leaves no entry, and
\* a lookup of a URL without an entry makes the request.  Every entry
\* holds what the page at its URL declares, so a later lookup of either URL
\* returns what the first returned.
C35_EndpointsCached ==
    /\ [][FindStep =>
            LET id_url == last'.id
                profile == last'.res.identity
                endpoints == Endpoints(last'.res.url, "")
            IN  /\ endpoints # NoEndpoints =>
                    /\ Cached(cache', id_url) /\ Cached(cache', profile)
                    /\ cache'[id_url].val = [endpoints |-> endpoints, profile |-> profile]
                    /\ cache'[profile].val = [endpoints |-> endpoints, profile |-> profile]
                    /\ profile = web[id_url].perm
                /\ Cached(cache, id_url) =>
                    /\ ~last'.fetched
                    /\ endpoints = cache[id_url].val.endpoints
                    /\ profile = cache[id_url].val.profile
                /\ endpoints = NoEndpoints =>
                    /\ ~Cached(cache', id_url)
                    /\ last'.fetched
                /\ ~Cached(cache, id_url) => last'.fetched]_vars
    /\ [](\A u \in IAUrls :
            Cached(cache, u) => /\ web[u].ok
                                /\ cache[u].val.endpoints = Derived(web[u])
                                /\ cache[u].val.profile = web[u].perm)

\* A lookup of a permanent URL has been answered, without a request, from
\* the entry that the lookup of a URL redirecting to it left there
C35_Witness ==
    /\ last.op = "find_endpoint"
    /\ ~last.fetched
    /\ last.res.url # ""
    /\ \E x \in IAUrls :
        /\ x # last.id
        /\ Cached(cache, x)
        /\ cache[x].val.profile = last.id
        /\ cache[x].at = cache[last.id].at

\* The step in which verify_id is called with the same URL twice and returns
SameIdStep == Idle /\ last'.op = "verify_id" /\ last'.id = last'.me

\* C21: verify_id(A, A) returns A for every A, whatever endpoints the page at
\* A declares, none at all and no page at all included; it looks nothing up,
\* so the endpoint cache is as it was.
C21_SameIdVerifies ==
    [][SameIdStep => /\ last'.res = Returns(last'.id)
                     /\ cache' = cache]_vars

\* verify_id(A, A) has returned A although no page answers at A, in a web
\* where another page declares an endpoint
C21_Witness ==
    /\ last.op = "verify_id"
    /\ last.id = last.me
    /\ last.res = Returns(last.id)
    /\ ~web[last.id].ok
    /\ \E u \in IAUrls : web[u].ok /\ web[u].auth # ""

----------------------------------------------------------------------------
(* Two requests served at once by threads that share the DictStore: each    *)
(* runs check_callback with a state token, and TokenStore.pop is the get    *)
(* of line 56 followed by the remove of line 59, two calls on the dict      *)
(* The race is over within a second: no time passes here                   *)

Procs == {1, 2}

Proc(pc, state, got, res) == [pc |-> pc, state |-> state, got |-> got, res |-> res]
NoProc == Proc("idle", NoToken, NoGot, NoResult)

InitConc ==
    /\ now = 0
    /\ store = <<>>
    /\ nextKey = 1
    /\ storeMaxAge \in {0, StoreAge}
    /\ handlers \in {<<HandlerOf(h)>> : h \in HandlerIds}
    /\ timeout = [h \in Configured |-> MaxTimeout]
    /\ pending = <<>>
    /\ pendingExpires = FALSE
    /\ sent = 0
    /\ cache = <<>>
    /\ profiles = <<>>
    /\ fvCache = NoFvCache
    /\ web = TxWeb
    /\ finger = <<>>
    /\ procs = [p \in Procs |-> NoProc]
    /\ last = NoCall
    /\ verified = {}
    /\ revoked = {}
    /\ tokenStore = "DictStore"

ConcFrame ==
    UNCHANGED <<now, nextKey, sent, fvCache, last, storeMaxAge, timeout, pendingExpires,
                web, finger, handlers, revoked, tokenStore>>

\* The request comes in: check_callback reads the state token
ConcBegin(p) ==
    /\ procs[p].pc = "idle"
    /\ \E state \in Keys :
        /\ state < nextKey
        /\ procs' = [procs EXCEPT ![p] = Proc("get", state, NoGot, NoResult)]
    /\ UNCHANGED <<store, pending, cache, profiles, verified>>
    /\ ConcFrame

\* pop, line 56: stored = self.get(key, to_type)
ConcGet(p) ==
    /\ procs[p].pc = "get"
    /\ procs' = [procs EXCEPT ![p].pc = "remove",
                              ![p].got = DictGet(store, storeMaxAge, procs[p].state, now)]
    /\ UNCHANGED <<store, pending, cache, profiles, verified>>
    /\ ConcFrame

\* pop, line 59: self.remove(key)
ConcRemove(p) ==
    /\ procs[p].pc = "remove"
    /\ store' = DictRemove(store, procs[p].state)
    /\ procs' = [procs EXCEPT ![p].pc = "decide"]
    /\ UNCHANGED <<pending, cache, profiles, verified>>
    /\ ConcFrame

\* The rest of check_callback for what the get gave, the provider answering
\* as it should
ConcDecided(got) ==
    CASE "e" \in Configured ->
            EmailDecided(got) @@ [cache |-> cache, profiles |-> profiles]
      [] "ia" \in Configured ->
            IADecided(got, TRUE, [kind |-> "ok", me |-> got.val.id, name |-> ""])
            @@ [pending |-> pending]
      [] "fv" \in Configured ->
            [res |-> FVDecided(got, FALSE, TRUE, "ok",
                               [kind |-> "ok", url |-> Url("", "", "/@moo")], "ok"),
             pending |-> pending, cache |-> cache, profiles |-> profiles]

ConcDecide(p) ==
    /\ procs[p].pc = "decide"
    /\ \E out \in {ConcDecided(procs[p].got)} :
        /\ procs' = [procs EXCEPT ![p].pc = "done", ![p].res = out.res]
        /\ pending' = out.pending
        /\ cache' = out.cache
        /\ profiles' = out.profiles
        /\ verified' = IF out.res.kind = "Verified"
                       THEN verified \cup {procs[p].state} ELSE verified
    /\ UNCHANGED store
    /\ ConcFrame

NextConc ==
    \/ Return
    \/ EmailInitiate
    \/ IAInitiate
    \/ FVInitiate
    \/ \E p \in Procs : ConcBegin(p)
    \/ \E p \in Procs : ConcGet(p)
    \/ \E p \in Procs : ConcRemove(p)
    \/ \E p \in Procs : ConcDecide(p)

SpecConc == InitConc /\ [][NextConc]_vars

\* C5: when two check_callback calls that present the same state token
\* interleave, at most one of the two returns Verified.
C5_AtMostOneVerified ==
    \A p, q \in Procs :
        (/\ p # q
         /\ procs[p].state = procs[q].state
         /\ procs[p].res.kind = "Verified")
            => procs[q].res.kind # "Verified"

----------------------------------------------------------------------------
(* The handlers as their constructors build them over a token store, and    *)
(* the IndieAuth transactions of the handler that was built                 *)

\* The classes of authl/tokens.py that a token store is an instance of
TokenStores == {"DictStore", "Serializer"}

\* isinstance(token_store, tokens.Serializer)
IsSerializerMutant(cls) == FALSE
IsSerializer(cls) == cls = "Serializer"

InitBuild ==
    /\ now = 0
    /\ store = <<>>
    /\ nextKey = 1
    /\ storeMaxAge \in {0, StoreAge}
    /\ handlers = <<>>
    /\ timeout = <<>>
    /\ pending = <<>>
    /\ pendingExpires = FALSE
    /\ sent = 0
    /\ cache = <<>>
    /\ profiles = <<>>
    /\ fvCache = NoFvCache
    /\ web = TxWeb
    /\ finger = <<>>
    /\ procs = <<>>
    /\ last = NoCall
    /\ verified = {}
    /\ revoked = {}
    /\ tokenStore \in TokenStores

\* The order in which from_config builds the handlers that are configured
Rank(h) == CASE h = "e" -> 1 [] h = "ia" -> 2 [] h = "fv" -> 3

\* EmailAddress(..., token_store), IndieAuth(client_id, token_store, timeout)
\* and Fediverse(name, token_store, timeout): only IndieAuth.__init__ looks
\* at the class of the store.  A handler that was built is added to the
\* instance, in the order of from_config.
Construct(h) ==
    /\ Idle
    /\ \A i \in DOMAIN handlers : Rank(handlers[i].cb_id) < Rank(h)
    /\ IF h = "ia" /\ IsSerializer(tokenStore)
       THEN /\ last' = Call("__init__", h, NoToken, NoToken, NoUrl, "", NoUrl,
                            Raises("ValueError"))
            /\ UNCHANGED <<handlers, timeout>>
       ELSE /\ last' = Call("__init__", h, NoToken, NoToken, NoUrl, "", NoUrl, NoResult)
            /\ handlers' = Append(handlers, HandlerOf(h))
            /\ timeout' = (h :> MaxTimeout) @@ timeout
    /\ UNCHANGED <<now, store, nextKey, pending, sent, cache, profiles, fvCache,
                   verified, revoked, storeMaxAge, pendingExpires, web, finger,
                   procs, tokenStore>>

NextBuild ==
    \/ Return
    \/ Tick
    \/ \E h \in HandlerIds : Construct(h)
    \/ IAInitiate
    \/ IACallback

SpecBuild == InitBuild /\ [][NextBuild]_vars

\* C22: constructing an IndieAuth handler with a Serializer as its token
\* store fails with ValueError and builds no handler, so that over a
\* Serializer no IndieAuth handler is there, none of its methods is ever
\* called and no transaction of it is ever stored.
C22_NoIndieAuthOverSerializer ==
    /\ [](IsSerializer(tokenStore) =>
            /\ "ia" \notin Configured
            /\ store = <<>>
            /\ last.h = "ia" => last.op = "__init__" /\ last.res = Raises("ValueError"))
    /\ [][(Idle /\ last'.op = "__init__" /\ last'.h = "ia" /\ tokenStore = "Serializer")
            => last'.res = Raises("ValueError") /\ handlers' = handlers]_vars

\* The constructor of IndieAuth has raised ValueError over a Serializer with
\* which the Email handler had been built before
C22_Witness ==
    /\ tokenStore = "Serializer"
    /\ last.op = "__init__"
    /\ last.h = "ia"
    /\ last.res = Raises("ValueError")
    /\ "e" \in Configured

----------------------------------------------------------------------------
(* IndieAuth logins over pages that their owners change while a login is    *)
(* under way: the handler fetches a page again whenever its cache entry     *)
(* has expired                                                              *)

InitChanging ==
    /\ now = 0
    /\ store = <<>>
    /\ nextKey = 1
    /\ storeMaxAge = 0
    /\ handlers = <<HandlerOf("ia")>>
    /\ timeout = [h \in Configured |-> MaxTimeout]
    /\ pending = <<>>
    /\ pendingExpires = FALSE
    /\ sent = 0
    /\ cache = <<>>
    /\ profiles = <<>>
    /\ fvCache = NoFvCache
    /\ web = TxWeb
    /\ finger = <<>>
    /\ procs = <<>>
    /\ last = NoCall
    /\ verified = {}
    /\ revoked = {}
    /\ tokenStore = "DictStore"

\* The owner of the domain that logins are asked for has its pages declare
\* another authorization_endpoint, or none: what utils.request_url answers
\* from now on
PageChange ==
    /\ Idle
    /\ \E d \in {u.netloc : u \in IARequestIds}, a \in AuthEndpoints \cup {""} :
        /\ web' = [u \in IAUrls |-> IF u.netloc = d THEN [web[u] EXCEPT !.auth = a]
                                     ELSE web[u]]
        /\ web' # web
    /\ UNCHANGED <<now, store, nextKey, pending, sent, cache, profiles, fvCache,
                   verified, revoked, last, storeMaxAge, timeout, pendingExpires,
                   finger, handlers, procs, tokenStore>>

NextChanging ==
    \/ Return
    \/ Tick
    \/ PageChange
    \/ IAInitiate
    \/ IACallback

SpecChanging == InitChanging /\ [][NextChanging]_vars

\* C24: check_callback of the IndieAuth handler returns Verified with an
\* identity other than the requested one only if the authorization_endpoint
\* discovered for that identity is the endpoint that initiate_auth stored in
\* the transaction, the one the code was verified against; also when the
\* requested page's endpoint or its cache entry changes or expires between
\* the two calls.
C24_VerifiedAgainstStoredEndpoint ==
    [][(CheckCallbackStep /\ last'.h = "ia" /\ last'.res.kind = "Verified"
          /\ last'.res.identity # last'.id)
        => cache'[last'.res.identity].val.endpoints.auth = store[last'.key].val.endpoint]_vars

----------------------------------------------------------------------------
(* Two initiate_auth requests of the Email handler served at once by        *)
(* threads that share the handler: the test of line 133, the put of line    *)
(* 146, the assignment of line 147 and the send of line 164 are steps of    *)
(* their own, and another thread may run between any two of them.  The      *)
(* race is over within a second: no time passes here                       *)

\* A request under way: where it is, the address it is for, where to go
\* afterwards, the token it has put and what it returned
Sender(pc, addr, redir, state, res) ==
    [addr |-> addr, redir |-> redir] @@ Proc(pc, state, NoGot, res)
NoSender == Sender("idle", "", "", NoToken, NoResult)

InitSend ==
    /\ now = 0
    /\ store = <<>>
    /\ nextKey = 1
    /\ storeMaxAge \in {0, StoreAge}
    /\ handlers = <<HandlerOf("e")>>
    /\ timeout = [h \in Configured |-> MaxTimeout]
    /\ pending = <<>>
    /\ pendingExpires \in BOOLEAN
    /\ sent = 0
    /\ cache = <<>>
    /\ profiles = <<>>
    /\ fvCache = NoFvCache
    /\ web = TxWeb
    /\ finger = <<>>
    /\ procs = [p \in Procs |-> NoSender]
    /\ last = NoCall
    /\ verified = {}
    /\ revoked = {}
    /\ tokenStore = "DictStore"

SendFrame ==
    UNCHANGED <<now, cache, profiles, fvCache, last, verified, revoked, storeMaxAge,
                timeout, pendingExpires, web, finger, handlers, tokenStore>>

\* The request comes in, lines 128-131: a malformed address is turned away
SendBegin(p) ==
    /\ procs[p].pc = "idle"
    /\ \E id_url \in EmailIdUrls, redir \in Redirs :
        procs' = [procs EXCEPT ![p] =
                    IF id_url.scheme # "mailto" \/ ~validate_email(id_url.path)
                    THEN Sender("done", "", redir, NoToken,
                                Error("Malformed email URL", redir))
                    ELSE Sender("check", DestAddr(id_url.path), redir, NoToken, NoResult)]
    /\ UNCHANGED <<store, nextKey, pending, sent>>
    /\ SendFrame

\* Lines 133-144: Notify if the address is still pending, and otherwise the
\* pending entry, if there is one, is dropped
SendCheck(p) ==
    /\ procs[p].pc = "check"
    /\ IF StillPending(procs[p].addr)
       THEN /\ procs' = [procs EXCEPT ![p].pc = "done", ![p].res = Notify("cdata")]
            /\ UNCHANGED pending
       ELSE /\ procs' = [procs EXCEPT ![p].pc = "put"]
            /\ pending' = DictRemove(pending, procs[p].addr)
    /\ UNCHANGED <<store, nextKey, sent>>
    /\ SendFrame

\* Line 146: token = self._token_store.put((dest_addr, redir, time.time()))
SendPut(p) ==
    /\ procs[p].pc = "put"
    /\ Put(Value("e3", Url("", "", procs[p].addr), "", now, procs[p].redir))
    /\ procs' = [procs EXCEPT ![p].pc = "record", ![p].state = nextKey]
    /\ UNCHANGED <<pending, sent>>
    /\ SendFrame

\* Line 147: self._pending[dest_addr] = token
SendRecord(p) ==
    /\ procs[p].pc = "record"
    /\ pending' = Set(pending, procs[p].addr, procs[p].state, now)
    /\ procs' = [procs EXCEPT ![p].pc = "send"]
    /\ UNCHANGED <<store, nextKey, sent>>
    /\ SendFrame

\* Lines 164-166: self._sendmail(msg), and Notify
SendMail(p) ==
    /\ procs[p].pc = "send"
    /\ sent' = sent + 1
    /\ procs' = [procs EXCEPT ![p].pc = "done", ![p].res = Notify("cdata")]
    /\ UNCHANGED <<store, nextKey, pending>>
    /\ SendFrame

\* Both requests have been answered; the threads take the next two
SendNext ==
    /\ \A p \in Procs : procs[p].pc = "done"
    /\ procs' = [p \in Procs |-> NoSender]
    /\ UNCHANGED <<store, nextKey, pending, sent>>
    /\ SendFrame

NextSend ==
    \/ \E p \in Procs : SendBegin(p)
    \/ \E p \in Procs : SendCheck(p)
    \/ \E p \in Procs : SendPut(p)
    \/ \E p \in Procs : SendRecord(p)
    \/ \E p \in Procs : SendMail(p)
    \/ SendNext

SpecSend == InitSend /\ [][NextSend]_vars

\* C26: when two initiate_auth calls of the Email handler for the same address
\* run at once within the pending window, however their steps interleave,
\* the send function is called at most once and a single token is pending for
\* the address once both have returned.
C26_ConcurrentSendsOnce ==
    \A p, q \in Procs :
        (/\ p # q
         /\ procs[p].pc = "done" /\ procs[p].res.kind = "Notify"
         /\ procs[q].pc = "done" /\ procs[q].res.kind = "Notify"
         /\ procs[p].addr = procs[q].addr)
            => /\ sent <= 1
               /\ Cardinality(LiveTokensFor(procs[p].addr)) = 1
               /\ StillPending(procs[p].addr)

----------------------------------------------------------------------------
(* The three handlers that from_config builds over one token store, each    *)
(* running its logins: any of them may be handed a token of another         *)

InitShared ==
    /\ now = 0
    /\ store = <<>>
    /\ nextKey = 1
    /\ storeMaxAge = 0
    /\ handlers = <<HandlerOf("e"), HandlerOf("ia"), HandlerOf("fv")>>
    /\ timeout = [h \in Configured |-> MaxTimeout]
    /\ pending = <<>>
    /\ pendingExpires = FALSE
    /\ sent = 0
    /\ cache = <<>>
    /\ profiles = <<>>
    /\ fvCache = NoFvCache
    /\ web = TxWeb
    /\ finger = <<>>
    /\ procs = <<>>
    /\ last = NoCall
    /\ verified = {}
    /\ revoked = {}
    /\ tokenStore = "DictStore"

\* The logins of this model run within one second: what the clock does to a
\* transaction is the matter of the model of one handler above
NextShared ==
    \/ Return
    \/ \E key \in Keys : TokenRemove(key)
    \/ EmailInitiate
    \/ EmailCallback
    \/ IAInitiate
    \/ IACallback
    \/ FVInitiate
    \/ FVCallback

SpecShared == InitShared /\ [][NextShared]_vars

\* The tuple that each handler stores under its tokens
ShapeOf(h) == CASE h = "e" -> "e3" [] h = "ia" -> "ia6" [] h = "fv" -> "fv3"

\* The step in which a handler's check_callback looks up a token that is in
\* the store and was issued by another handler
ForeignTokenStep ==
    /\ CheckCallbackStep
    /\ last'.gett = NoToken
    /\ last'.key \in DOMAIN store
    /\ store[last'.key].val.shape # ShapeOf(last'.h)

\* C27: the handlers of from_config share one token store, and a token
\* issued by one handler that is presented to the check_callback of another
\* gets an Error disposition, never Verified and never an exception, and the
\* transaction of the handler that issued it stays in the store, usable.
C27_TokensBoundToHandler ==
    [][ForeignTokenStep =>
        /\ last'.res.kind = "Error"
        /\ last'.key \in DOMAIN store'
        /\ store'[last'.key] = store[last'.key]]_vars

\* The part of C27 that is about Verified alone
C27_ForeignNeverVerified ==
    [][ForeignTokenStep => last'.res.kind # "Verified"]_vars

\* The step in which a handler's initiate_auth stores a transaction
IssuingStep == Idle /\ last'.op = "initiate_auth" /\ store' # store

\* What links a Verified result to the initiate_auth that stored its token,
\* for the address that the Email handler is taken to keep of 'mailto:' + a:
\*  - initiate_auth stores its tuple, with the redirect it was given, under
\*    a token never issued before and touches no other entry;
\*  - no other call adds an entry or changes one that stays, and a token
\*    that is gone does not come back;
\*  - check_callback returns Verified only for a token that is in the store
\*    with the tuple of that handler, and the redirect of the result, and the
\*    identity of the Email handler, are those of the tuple.
VerifiedAsInitiated(kept(_)) ==
    /\ IssuingStep =>
        /\ last'.key \notin Issued
        /\ DOMAIN store' = DOMAIN store \cup {last'.key}
        /\ \A j \in DOMAIN store : store'[j] = store[j]
        /\ store'[last'.key].val.shape = ShapeOf(last'.h)
        /\ store'[last'.key].val.redir = last'.redir
        /\ last'.h = "e" => store'[last'.key].val.id.path = kept(last'.id.path)
    /\ ~IssuingStep =>
        /\ DOMAIN store' \subseteq DOMAIN store
        /\ \A j \in DOMAIN store' : store'[j] = store[j]
    /\ Issued \subseteq Issued'
    /\ (CheckCallbackStep /\ last'.res.kind = "Verified") =>
        /\ last'.gett = NoToken
        /\ Live(store, storeMaxAge, last'.key, now)
        /\ last'.key \notin DOMAIN store'
        /\ store[last'.key].val.shape = ShapeOf(last'.h)
        /\ last'.res.redir = store[last'.key].val.redir
        /\ last'.h = "e" =>
                last'.res.identity = Url("mailto", "", store[last'.key].val.id.path)

\* The address as it was given
AsGiven(a) == a

\* C28 as stated: over a dict-backed store, check_callback of the Email,
\* IndieAuth or Fediverse handler returns Verified only for a token that an
\* earlier initiate_auth of that handler stored and that has not been
\* consumed since, and the redirect of the result, and for Email the
\* identity, is the one given to that initiate_auth.
C28_Original == [][VerifiedAsInitiated(AsGiven)]_vars

\* C28, amended: the same, the identity of the Email handler being the one
\* given to that initiate_auth in lower case.
C28_VerifiedAsInitiated == [][VerifiedAsInitiated(lower)]_vars

\* The Email handler has verified a login while a transaction of the
\* Fediverse handler was in the same store
C28_Witness ==
    /\ last.op = "check_callback"
    /\ last.h = "e"
    /\ last.res.kind = "Verified"
    /\ last.res.redir = "/other"
    /\ last.res.identity = Url("mailto", "", "user@example.com")
    /\ \E j \in DOMAIN store : store[j].val.shape = "fv3"


----------------------------------------------------------------------------
(* utils.permanent_url(response): the permanent URL of a fetch, from the    *)
(* redirect history that requests keeps in response.history                 *)

\* How many redirects a chain may have
MaxHops == 3

\* The URLs of a chain, https://one/, https://two/, ... of the tests
ChainUrls == 1..(MaxHops + 1)
PermanentCodes == {301, 308}
RedirectCodes == PermanentCodes \cup {302}

\* What the server may answer for a URL: 200, or a redirect with its
\* Location.  Redirects lead forward, so every fetch comes to an end.
Answers(url) ==
    {[status_code |-> 200, location |-> url]} \cup
    {[status_code |-> c, location |-> v] :
        c \in RedirectCodes, v \in {x \in ChainUrls : x > url}}

RECURSIVE ChainsUpTo(_)
ChainsUpTo(n) ==
    IF n = 0 THEN {<<>>}
    ELSE {Append(w, a) : w \in ChainsUpTo(n - 1), a \in Answers(n)}

\* The answers of the servers, one for each URL
Chains == ChainsUpTo(MaxHops + 1)

RECURSIVE FollowRedirects(_, _)
\* requests.get(url): response.history, the redirect responses in the order
\* they came, and response.url, the URL of the response that is no redirect
FollowRedirects(w, url) ==
    IF w[url].status_code \notin RedirectCodes THEN [history |-> <<>>, url |-> url]
    ELSE LET rest == FollowRedirects(w, w[url].location)
         IN  [history |-> <<[url |-> url, status_code |-> w[url].status_code]>>
                          \o rest.history,
              url |-> rest.url]

\* permanent_url as a fetch that takes the last URL of the chain
PermanentUrlMutant(response) == response.url

\* permanent_url(response): the URL of the first response of the history
\* that is no permanent redirect, or response.url when there is none
PermanentUrl(response) ==
    LET temporary == {i \in DOMAIN response.history :
                        response.history[i].status_code \notin PermanentCodes}
    IN  IF temporary = {} THEN response.url
        ELSE response.history[CHOOSE i \in temporary : \A k \in temporary : i <= k].url

InitPerm ==
    /\ now = 0
    /\ store = <<>>
    /\ nextKey = 1
    /\ storeMaxAge = 0
    /\ handlers = <<>>
    /\ timeout = <<>>
    /\ pending = <<>>
    /\ pendingExpires = FALSE
    /\ sent = 0
    /\ cache = <<>>
    /\ profiles = <<>>
    /\ fvCache = NoFvCache
    /\ web \in Chains
    /\ finger = <<>>
    /\ procs = <<>>
    /\ last = NoCall
    /\ verified = {}
    /\ revoked = {}
    /\ tokenStore = "DictStore"

\* permanent_url(requests.get(url))
PermanentUrlOfGet ==
    /\ Idle
    /\ \E url \in ChainUrls :
        \E response \in {FollowRedirects(web, url)} :
            last' = [requested |-> url, response |-> response,
                     permanent |-> PermanentUrl(response)] @@
                    Call("permanent_url", "", NoToken, NoToken, NoUrl, "", NoUrl, NoResult)
    /\ UNCHANGED <<now, store, nextKey, pending, sent, cache, profiles, fvCache, verified,
                   revoked, Config>>

NextPerm ==
    \/ Return
    \/ PermanentUrlOfGet

SpecPerm == InitPerm /\ [][NextPerm]_vars

RECURSIVE LeadingRun(_, _)
\* The URLs from url on that answer with a permanent redirect, one leading
\* to the next
LeadingRun(w, url) ==
    IF w[url].status_code \in PermanentCodes
    THEN {url} \cup LeadingRun(w, w[url].location)
    ELSE {}

RECURSIVE AfterLeadingRun(_, _)
\* The URL that following only those permanent redirects leads to
AfterLeadingRun(w, url) ==
    IF w[url].status_code \in PermanentCodes THEN AfterLeadingRun(w, w[url].location)
    ELSE url

\* C38: permanent_url of the response to a request is the URL reached from
\* the requested URL by following only the leading run of permanent (301,
\* 308) redirects, the first URL of the chain whose response is no permanent
\* redirect; it is the final URL when the chain has no temporary redirect;
\* whatever the servers answer after the first temporary redirect does not
\* change it; and a request made to it gives the same URL again.
C38_PermanentUrl ==
    last.op = "permanent_url" =>
        LET url == last.requested
            history == last.response.history
            p == last.permanent
        IN  /\ p = AfterLeadingRun(web, url)
            /\ web[p].status_code \notin PermanentCodes
            /\ \A i \in DOMAIN history :
                    history[i].url = p => \A k \in 1..(i - 1) :
                                            history[k].status_code \in PermanentCodes
            /\ (\A i \in DOMAIN history : history[i].status_code \in PermanentCodes)
                    => p = last.response.url
            \* one answer changed at a time, anywhere but in the leading run
            /\ \A u \in ChainUrls \ LeadingRun(web, url) :
                    \A a \in Answers(u) :
                        (u = p => a.status_code \notin PermanentCodes)
                            => PermanentUrl(FollowRedirects([web EXCEPT ![u] = a], url)) = p
            /\ PermanentUrl(FollowRedirects(web, p)) = p

\* The chain of the tests: one goes for good to two, two for now to three,
\* three for good to four; the fetch of one ended at four and its
\* permanent URL is two
C38_Witness ==
    /\ last.op = "permanent_url"
    /\ last.requested = 1
    /\ web[1] = [status_code |-> 301, location |-> 2]
    /\ web[2] = [status_code |-> 302, location |-> 3]
    /\ web[3] = [status_code |-> 301, location |-> 4]
    /\ last.response.url = 4
    /\ last.permanent = 2

----------------------------------------------------------------------------
(* Logins that cannot be started: an identity page that cannot be fetched   *)
(* or declares no authorization_endpoint, an address that is no address     *)

InitFail ==
    /\ now = 0
    /\ store = <<>>
    /\ nextKey = 1
    /\ storeMaxAge = 0
    /\ handlers \in {<<HandlerOf(h)>> : h \in {"e", "ia"}}
    /\ timeout = [h \in Configured |-> MaxTimeout]
    /\ pending = <<>>
    /\ pendingExpires = FALSE
    /\ sent = 0
    /\ cache = <<>>
    /\ profiles = <<>>
    /\ fvCache = NoFvCache
    /\ web \in {[u \in IAUrls |-> IF u \in IARequestIds /\ "ia" \in Configured
                                  THEN p ELSE TxWeb[u]] :
                    p \in {q \in UNION {Pages(u) : u \in IARequestIds} :
                                q.auth = "" /\ (q.wm = "" <=> q.perm \in IARequestIds)}}
    /\ finger = <<>>
    /\ procs = <<>>
    /\ last = NoCall
    /\ verified = {}
    /\ revoked = {}
    /\ tokenStore = "DictStore"

\* IndieAuth.handles_page(url, headers, content, links), called as
\* get_handler_for_url calls it: with the page it has just fetched and the
\* permanent URL of that fetch
HandlesPage ==
    /\ "ia" \in Configured
    /\ Idle
    /\ \E url \in IARequestIds :
        /\ web[url].ok
        /\ LET found == find_endpoints(cache, web, permanent_url(web[url]), TRUE,
                                       web[url], now)
           IN  /\ cache' = found.cache
               /\ profiles' = Stash(profiles, found.prefill, now)
               /\ last' = [page |-> web[url], endpoints |-> found.endpoints] @@
                          [Call("handles_page", "ia", NoToken, NoToken,
                                permanent_url(web[url]), "", NoUrl, Returns(found.profile))
                           EXCEPT !.res.url = found.endpoints.auth]
    /\ UNCHANGED <<now, store, nextKey, pending, sent, fvCache, verified, Config, revoked>>

NextFail ==
    \/ Return
    \/ Tick
    \/ PageChange
    \/ EmailInitiate
    \/ IAInitiate
    \/ HandlesPage

SpecFail == InitFail /\ [][NextFail]_vars

\* The step in which a handler's initiate_auth is called and returns
InitiateStep == Idle /\ last'.op = "initiate_auth"

\* Nothing gives an authorization_endpoint for the identity: the endpoint
\* cache holds none for it, and its page cannot be fetched or declares none
Undiscoverable(id_url) ==
    /\ ~(Live(cache, CacheAge, id_url, now) /\ cache[id_url].val.endpoints.auth # "")
    /\ Live(cache, CacheAge, id_url, now) \/ ~web[id_url].ok \/ web[id_url].auth = ""

\* The addresses of the model that are no email addresses
MalformedAddresses == {"foobar.com"}

\* C32: initiate_auth of the IndieAuth handler for an identity with no
\* discoverable authorization_endpoint returns an Error carrying the
\* redirect destination, stores no token and issues no Redirect;
\* initiate_auth of the Email handler for a malformed address (or a URL
\* that is no mailto: URL) returns an Error carrying it, stores no token
\* and sends nothing.  No initiate_auth that returns an Error stores a token.
C32_FailedInitiateStoresNothing ==
    [][InitiateStep =>
        /\ (last'.h = "ia" /\ Undiscoverable(last'.id)) =>
            /\ last'.res = Error("Failed to get IndieAuth endpoint", last'.redir)
            /\ store' = store
            /\ nextKey' = nextKey
        /\ (last'.h = "e" /\ (last'.id.scheme # "mailto"
                                \/ last'.id.path \in MalformedAddresses)) =>
            /\ last'.res = Error("Malformed email URL", last'.redir)
            /\ store' = store
            /\ nextKey' = nextKey
            /\ pending' = pending
            /\ sent' = sent
            /\ last'.msg = NoMsg
        /\ last'.res.kind = "Error" => store' = store /\ sent' = sent
        /\ last'.res.kind = "Redirect" =>
            /\ last'.key \in DOMAIN store' \ DOMAIN store
            /\ store'[last'.key].val.endpoint = last'.res.url
            /\ last'.res.url # ""]_vars

\* initiate_auth for an identity whose page answers, declares a webmention
\* endpoint and no authorization_endpoint, has returned the Error
C32_Witness ==
    /\ last.op = "initiate_auth"
    /\ last.h = "ia"
    /\ last.res = Error("Failed to get IndieAuth endpoint", last.redir)
    /\ web[last.id].ok
    /\ web[last.id].wm # ""
    /\ web[last.id].auth = ""
    /\ store = <<>>

\* initiate_auth for an address without a domain has returned the Error
C32_WitnessEmail ==
    /\ last.op = "initiate_auth"
    /\ last.h = "e"
    /\ last.id.scheme = "mailto"
    /\ last.id.path \in MalformedAddresses
    /\ last.res.kind = "Error"
    /\ sent = 0


\* C36: find_endpoints called with the links and content of a page that
\* has just been fetched returns exactly the endpoints that page declares:
\* an endpoint that the cache holds from an earlier version of the page and
\* the fresh page no longer declares is not reported, and handles_page is
\* falsy for a page that declares no authorization_endpoint.
C36_FreshPageDecides ==
    [][(Idle /\ last'.op = "handles_page") =>
        /\ last'.endpoints = Derived(last'.page)
        /\ last'.page.auth = "" => last'.res.url = ""]_vars

----------------------------------------------------------------------------
(* The generic OAuth handler, authl/handlers/oauth.py, and the Mastodon     *)
(* handler, authl/handlers/mastodon.py: both keep their transactions in     *)
(* self._pending, the first in an ExpiringDict of its own, the second in    *)
(* the dict it is constructed with                                          *)

OAuthIds == {"oauth", "md", "t"}

\* disposition.Error(message) as oauth.py calls it, without the redir that
\* Error.__init__ requires
ErrorWithoutRedir(message) == Raises("TypeError")

\* max_age_seconds=pending_ttl or 600 for OAuth; a dict for Mastodon
OAuthPendingAge(h) == IF h = "oauth" THEN timeout[h] ELSE 0

\* state not in self._pending / self._pending[state]: the entry is read and
\* left where it is
PendingLookup(h, state) ==
    IF Live(pending, OAuthPendingAge(h), state, now) THEN pending[state].val
    ELSE NoValue

\* self._pending[state] = client / (client, redir) under state = utils.gen_token()
PendingPut(h, v) ==
    /\ nextKey <= TokenBound
    /\ pending' = Set(Purge(pending, OAuthPendingAge(h), now), nextKey, v, now)
    /\ nextKey' = nextKey + 1

\* OAuth.initiate_auth(id_url, callback_url) and
\* Mastodon.initiate_auth(id_url, callback_uri, redir); reg is what the
\* registration of the client came to
OAuth_initiate_auth(h, id_url, redir, reg) ==
    IF reg # "ok"
    THEN /\ last' = Call("initiate_auth", h, NoToken, NoToken, id_url, redir, NoUrl,
                         IF h = "oauth"
                         THEN ErrorWithoutRedir("Failed to register OAuth client")
                         ELSE Error("Failed to register OAuth client", redir))
         /\ UNCHANGED <<pending, nextKey>>
    ELSE /\ PendingPut(h, Value(IF h = "oauth" THEN "oa1" ELSE "md2", InstanceOf(id_url),
                                "", 0, IF h = "oauth" THEN "" ELSE redir))
         /\ last' = Call("initiate_auth", h, nextKey, NoToken, id_url, redir, NoUrl,
                         Redirect("/oauth/authorize", nextKey))

\* What the provider answers during a check_callback
OAuthAnswers ==
    [hasError : BOOLEAN, hasCode : BOOLEAN, tok : {"ok", "status", "noaccess"},
     cred : {c \in FvCredentials : c.kind \in {"status", "ok"} /\ c.url.scheme \in {"", "https"}}]

\* Mastodon.check_callback, lines 184-228
MD_decided(state, a) ==
    LET v == PendingLookup("md", state)
    IN  IF a.hasError THEN Error("error_description", "Error signing into Mastodon")
        ELSE IF state = NoToken THEN Error("No transaction ID provided", "None")
        ELSE IF v = NoValue THEN Error("Transaction invalid or expired", "None")
        ELSE IF ~a.hasCode THEN Error("Missing auth code", v.redir)
        ELSE IF a.tok = "status" THEN Error("Could not retrieve access token", v.redir)
        ELSE IF a.tok = "noaccess" THEN Error("No access token provided", v.redir)
        ELSE get_identity(v.id, a.cred, v.redir)

\* OAuth.check_callback, lines 89-135; _get_identity is the subclass's
OAuth_decided(state, a) ==
    LET v == PendingLookup("oauth", state)
    IN  IF state = NoToken THEN ErrorWithoutRedir("No transaction ID provided")
        ELSE IF v = NoValue THEN ErrorWithoutRedir("Transaction invalid or expired")
        ELSE IF ~a.hasCode THEN ErrorWithoutRedir("Missing auth code")
        ELSE IF a.tok = "status" THEN ErrorWithoutRedir("Could not retrieve access token")
        ELSE IF a.tok = "noaccess" THEN ErrorWithoutRedir("No access token provided")
        ELSE get_identity(v.id, a.cred, "")

InitOAuth ==
    /\ now = 0
    /\ store = <<>>
    /\ nextKey = 1
    /\ storeMaxAge = 0
    /\ handlers \in {<<Handler(h, {}, {})>> : h \in OAuthIds}
    /\ timeout = [h \in Configured |-> MaxTimeout]
    /\ pending = <<>>
    /\ pendingExpires \in {"oauth" \in Configured \/ ("t" \in Configured /\ b) : b \in BOOLEAN}
    /\ sent = 0
    /\ cache = <<>>
    /\ profiles = <<>>
    /\ fvCache = NoFvCache
    /\ web = TxWeb
    /\ finger = <<>>
    /\ procs = <<>>
    /\ last = NoCall
    /\ verified = {}
    /\ revoked = {}
    /\ tokenStore = "DictStore"

OAuthFrame ==
    <<now, store, sent, cache, profiles, fvCache, revoked, Config>>

OAuthInitiate ==
    /\ Idle
    /\ \E h \in Configured \ {"t"}, id_url \in FvIdUrls, redir \in Redirs,
          reg \in {"ok", "status"} :
        OAuth_initiate_auth(h, id_url, redir, reg)
    /\ UNCHANGED <<verified, OAuthFrame>>

OAuthCallback ==
    /\ Idle
    /\ \E h \in Configured \ {"t"}, state \in 1..MaxTokens \cup {NoToken},
          a \in OAuthAnswers :
        LET res == IF h = "md" THEN MD_decided(state, a) ELSE OAuth_decided(state, a)
        IN  /\ h = "oauth" => ~a.hasError
            /\ ~a.hasCode => a.tok = "status"
            /\ a.tok # "ok" => a.cred.kind = "status"
            /\ last' = Call("check_callback", h, state, NoToken, NoUrl, "", a.cred.url, res)
            /\ verified' = IF res.kind = "Verified" THEN verified \cup {state} ELSE verified
    /\ UNCHANGED <<pending, nextKey, OAuthFrame>>

OAuthTick ==
    /\ Idle
    /\ now < MaxTime
    /\ now' = now + 1
    /\ UNCHANGED <<store, pending, nextKey, sent, cache, profiles, fvCache, verified,
                   last, Config, revoked>>

\* The Twitter handler, authl/handlers/twitter.py

\* A code as Twitter issues it: a string that is no state of the handler
ProviderCode == MaxEmailTokens + 1

\* twitter_regex.match(id_url)
TwitterIdUrls == {Url("https", "twitter.com", "/fluffy"), Url("https", "m.example", "/@moo")}
IsTwitterUrl(id_url) == id_url.netloc = "twitter.com"

\* max_age_seconds=self._timeout when no storage is passed in
TwitterPendingAge == IF pendingExpires THEN timeout["t"] ELSE 0

\* initiate_auth; lib is what the call of client.authorizaton_url comes to
\* in the OAuth2Session of requests_oauthlib: an AttributeError for the
\* name, or the (authorization_url, state) that authorization_url returns
Twitter_initiate_auth(id_url, redir, lib) ==
    IF ~IsTwitterUrl(id_url)
    THEN /\ last' = Call("initiate_auth", "t", NoToken, NoToken, id_url, redir, NoUrl,
                         Error("Got invalid Twitter URL", redir))
         /\ UNCHANGED <<pending, nextKey>>
    ELSE IF lib = "AttributeError"
    THEN /\ last' = Call("initiate_auth", "t", NoToken, NoToken, id_url, redir, NoUrl,
                         Error("AttributeError", redir))
         /\ UNCHANGED <<pending, nextKey>>
    ELSE /\ nextKey <= TokenBound
         /\ pending' = Set(Purge(pending, TwitterPendingAge, now), nextKey,
                           Value("tw4", NoUrl, "", now, redir), now)
         /\ nextKey' = nextKey + 1
         /\ last' = Call("initiate_auth", "t", nextKey, NoToken, id_url, redir, NoUrl,
                         Redirect("https://twitter.com/i/oauth2/authorize", nextKey))

\* check_callback from line 147 on, for the popped transaction v: fetch is
\* what fetch_token comes to, revoke what the invalidation request comes to
TwitterExchange(v, fetch, revoke) ==
    \* fetch_token raised: the finally clause reads token, which was never bound
    IF fetch = "raises" THEN Raises("UnboundLocalError")
    \* ",".join("id", "name", ...) raises TypeError, which the except clause
    \* turns into an Error; then the finally clause posts the invalidation
    ELSE IF revoke = "refused" THEN Raises("ConnectionError")
    ELSE Error("TypeError", v.redir)

\* check_callback(url, get, data) with get = {'state': state, 'code': code}:
\* the transaction is looked up under the code
Twitter_check_callback(state, code, fetch, revoke) ==
    IF code = NoToken \/ ~Live(pending, TwitterPendingAge, code, now)
    THEN /\ last' = [code |-> code] @@
                    Call("check_callback", "t", state, NoToken, NoUrl, "", NoUrl,
                         Error("Invalid transaction", ""))
         /\ UNCHANGED <<pending, verified>>
    ELSE LET v == pending[code].val
             res == IF TimedOut(v.when, timeout["t"], now)
                    THEN Error("Login timed out", v.redir)
                    ELSE TwitterExchange(v, fetch, revoke)
         IN  /\ pending' = Drop(pending, code)
             /\ verified' = IF res.kind = "Verified" THEN verified \cup {state}
                            ELSE verified
             /\ last' = [code |-> code] @@
                        Call("check_callback", "t", state, NoToken, NoUrl, "", NoUrl, res)

TwitterInitiate ==
    /\ "t" \in Configured
    /\ Idle
    /\ \E id_url \in TwitterIdUrls, redir \in Redirs, lib \in {"AttributeError", "returns"} :
        Twitter_initiate_auth(id_url, redir, lib)
    /\ UNCHANGED <<verified, OAuthFrame>>

TwitterCallback ==
    /\ "t" \in Configured
    /\ Idle
    /\ \E state \in 1..MaxTokens \cup {NoToken},
          code \in 1..MaxTokens \cup {ProviderCode, NoToken},
          fetch \in {"ok", "raises"}, revoke \in {"ok", "refused"} :
        /\ fetch = "raises" => revoke = "ok"
        /\ Twitter_check_callback(state, code, fetch, revoke)
    /\ UNCHANGED <<nextKey, OAuthFrame>>

NextOAuth ==
    \/ Return
    \/ OAuthTick
    \/ OAuthInitiate
    \/ OAuthCallback
    \/ TwitterInitiate
    \/ TwitterCallback

SpecOAuth == InitOAuth /\ [][NextOAuth]_vars

\* C33: check_callback of the generic OAuth handler and of the Mastodon
\* handler pops the pending state: once a callback has been processed for
\* state S (here: has returned Verified), a later callback presenting S
\* finds no transaction, returns an Error and never Verified.
C33_SecondCallbackRejected ==
    [][\A k \in verified :
        (CheckCallbackStep /\ last'.key = k) =>
            /\ last'.res.kind # "Verified"
            /\ last'.h = "md" => last'.res = Error("Transaction invalid or expired", "None")
            /\ last'.h = "oauth" => last'.res.kind \in {"Error", "Raises"}]_vars

\* The step in which the Twitter handler's check_callback is called with
\* the state k of a transaction that is pending and has not timed out, and
\* with a code
TwitterLoginStep(k) ==
    /\ CheckCallbackStep
    /\ last'.h = "t"
    /\ last'.key = k
    /\ last'.code # NoToken
    /\ Live(pending, TwitterPendingAge, k, now)
    /\ now <= pending[k].val.when + timeout["t"]

Twitter_NeverVerified ==
    [][(CheckCallbackStep /\ last'.h = "t") => last'.res.kind \in {"Error", "Raises"}]_vars

====
